---- MODULE Spec2Model ----
(***************************************************************************)
(* A model of mpc, the MiKTeX package creator                              *)
(* (src/BuildUtilities/mpc/mpc.cpp): the repository assembly pipeline of   *)
(* PackageCreator::Run in its --update-repository and --create-package     *)
(* modes.  One action is one step of Run; the pure helpers of the program  *)
(* are operators.  Path names, file names and INI values are strings, and  *)
(* comparisons on them are made character by character as the code makes   *)
(* them.  An MD5 digest is modelled collision-free: the digest of x is the *)
(* pair <<"md5", x>>.                                                      *)
(***************************************************************************)
EXTENDS Integers, Sequences, FiniteSets, TLC

(***************************************************************************)
(* Strings                                                                 *)
(***************************************************************************)

\* The characters the model's strings are made of, in ascending ASCII order.
Alphabet == "\n-./0123456789;\\_abcdefghijklmnopqrstuvwxyz"

Char(s, i) == SubSeq(s, i, i)

\* The rank of a character in ASCII order.
CharRank ==
  [c \in {Char(Alphabet, i) : i \in 1..Len(Alphabet)} |->
     CHOOSE i \in 1..Len(Alphabet) : Char(Alphabet, i) = c]

RECURSIVE StrLessFrom(_, _, _)
StrLessFrom(a, b, i) ==
  IF i > Len(b) THEN FALSE
  ELSE IF i > Len(a) THEN TRUE
  ELSE LET x == CharRank[Char(a, i)]
           y == CharRank[Char(b, i)]
       IN  IF x # y THEN x < y ELSE StrLessFrom(a, b, i + 1)

\* operator< of std::string
StrLess(a, b) == StrLessFrom(a, b, 1)

RECURSIVE InsertSorted(_, _)
InsertSorted(x, s) ==
  IF s = <<>> THEN <<x>>
  ELSE IF StrLess(x, Head(s)) THEN <<x>> \o s
  ELSE <<Head(s)>> \o InsertSorted(x, Tail(s))

\* std::sort on a vector<string>
RECURSIVE Sort(_)
Sort(s) == IF s = <<>> THEN <<>> ELSE InsertSorted(Head(s), Sort(Tail(s)))

RECURSIVE SetToSortedSeq(_)
SetToSortedSeq(S) ==
  IF S = {} THEN <<>>
  ELSE InsertSorted(CHOOSE x \in S : TRUE,
                    SetToSortedSeq(S \ {CHOOSE x \in S : TRUE}))

RECURSIVE Reverse(_)
Reverse(s) == IF s = <<>> THEN <<>> ELSE Reverse(Tail(s)) \o <<Head(s)>>

Range(s) == {s[i] : i \in DOMAIN s}

Min(a, b) == IF a < b THEN a ELSE b

\* bool StartsWith(const string& s, const string& prefix)
StartsWith(s, prefix) ==
  SubSeq(s, 1, Min(Len(s), Len(prefix))) = prefix

\* PathName::ComparePrefixes(path1, path2, count): 0 iff the first count
\* characters of the two paths are the same (as in StripPrefix, which takes
\* the rest of the string after the count characters that compared equal).
ComparePrefixes(path1, path2, count) ==
  IF SubSeq(path1, 1, Min(Len(path1), count))
       = SubSeq(path2, 1, Min(Len(path2), count))
  THEN 0 ELSE 1

RECURSIVE LastDot(_, _)
LastDot(s, i) ==
  IF i = 0 THEN 0
  ELSE IF Char(s, i) = "/" THEN 0
  ELSE IF Char(s, i) = "." THEN i
  ELSE LastDot(s, i - 1)

\* PathName::GetExtension: the file name from its last dot on, "" if none
GetExtension(s) ==
  LET d == LastDot(s, Len(s)) IN IF d = 0 THEN "" ELSE SubSeq(s, d, Len(s))

\* PathName::HasExtension
HasExtension(s, ext) == GetExtension(s) = ext

\* PathName::AppendExtension: appends ext unless the name already ends in it
\* (files.csv becomes files.csv.lzma)
AppendExtension(s, ext) == IF HasExtension(s, ext) THEN s ELSE s \o ext

RECURSIVE ConvertToDos(_)
\* PathName::ConvertToDos: every slash becomes a backslash
ConvertToDos(s) ==
  IF Len(s) = 0 THEN ""
  ELSE (IF Char(s, 1) = "/" THEN "\\" ELSE Char(s, 1))
         \o ConvertToDos(SubSeq(s, 2, Len(s)))

Digits == "0123456789"

RECURSIVE NatToString(_)
NatToString(n) ==
  IF n < 10 THEN Char(Digits, n + 1)
  ELSE NatToString(n \div 10) \o Char(Digits, (n % 10) + 1)

\* std::to_string
to_string(n) == IF n < 0 THEN "-" \o NatToString(0 - n) ELSE NatToString(n)

RECURSIVE ParseNat(_, _, _)
ParseNat(s, i, acc) ==
  IF i > Len(s) THEN acc
  ELSE ParseNat(s, i + 1, acc * 10 + (CharRank[Char(s, i)] - CharRank["0"]))

\* Utils::ToTimeT
ToTimeT(s) ==
  IF Len(s) > 0 /\ Char(s, 1) = "-" THEN 0 - ParseNat(s, 2, 0)
  ELSE ParseNat(s, 1, 0)

RECURSIVE SumSeq(_)
SumSeq(s) == IF s = <<>> THEN 0 ELSE Head(s) + SumSeq(Tail(s))

RECURSIVE JoinWithSpace(_)
JoinWithSpace(s) ==
  IF s = <<>> THEN ""
  ELSE IF Len(s) = 1 THEN s[1]
  ELSE s[1] \o " " \o JoinWithSpace(Tail(s))

(***************************************************************************)
(* Digests                                                                 *)
(***************************************************************************)

\* MD5Builder: the digest of the bytes fed to it; no two byte strings of a
\* run share a digest
MD5Of(bytes) == <<"md5", bytes>>

\* A default-constructed MD5 (package.ini without an MD5 key): all zero
ZeroMD5 == <<"zero", "">>

\* The sixteen bytes of a digest, as MD5Builder::Update is fed them
DigestBytes(d) == "(" \o d[1] \o ":" \o d[2] \o ")"

RECURSIVE Concat(_)
Concat(s) == IF s = <<>> THEN "" ELSE Head(s) \o Concat(Tail(s))

\* MD5::ToString and MD5::Parse: the hexadecimal form of a digest
MD5ToString(d) == <<"hex", d>>
MD5Parse(str) == str[2]

\* PackageCreator::GetTdsDigest: the entries of the FileDigestTable in key
\* order, each fed as its DOS path and then its digest.  fileDigests is a
\* function from relative paths to digests.
GetTdsDigest(fileDigests) ==
  LET keys == SetToSortedSeq({ConvertToDos(p) : p \in DOMAIN fileDigests})
      digestOf(k) ==
        fileDigests[CHOOSE p \in DOMAIN fileDigests : ConvertToDos(p) = k]
  IN  MD5Of(Concat([i \in DOMAIN keys |->
                      keys[i] \o DigestBytes(digestOf(keys[i]))]))

(***************************************************************************)
(* Files, package records, INI documents                                   *)
(***************************************************************************)

\* string texmfPrefix = "texmf"
texmfPrefix == "texmf"

\* <texmfPrefix>/tpm/packages/<id>.tpm, the package manifest file of id
TpmPath(id) == texmfPrefix \o "/tpm/packages/" \o id \o ".tpm"

\* A regular file of n bytes, the k-th such contents
RegFile(n, k) == [size |-> n, data |-> "bytes" \o to_string(k)]

\* Cfg: a function from section names to sections, a section a function from
\* the keys it holds to their values
EmptyCfg == <<>>

TryGetValueAsString(cfg, section, key) ==
  section \in DOMAIN cfg /\ key \in DOMAIN cfg[section]

GetValue(cfg, section, key) == cfg[section][key]

PutValue(cfg, section, key, value) ==
  LET old == IF section \in DOMAIN cfg THEN cfg[section] ELSE <<>>
  IN  (section :> ((key :> value) @@ old)) @@ cfg

DeleteValue(cfg, section, key) ==
  (section :> [k \in DOMAIN cfg[section] \ {key} |-> cfg[section][k]]) @@ cfg

DeleteKey(cfg, section) == [s \in DOMAIN cfg \ {section} |-> cfg[s]]

\* Cfg::GetSize: the number of sections
GetSize(cfg) == Cardinality(DOMAIN cfg)

\* time_t InvalidTimeT = static_cast<time_t>(-1)
InvalidTimeT == 0 - 1

\* A default-constructed MpcPackageInfo
NewPackageInfo ==
  [id |-> "", version |-> "", targetSystem |-> "",
   minTargetSystemVersion |-> "", ctanPath |-> "",
   requiredPackages |-> <<>>, requiredBy |-> <<>>,
   runFiles |-> <<>>, docFiles |-> <<>>, sourceFiles |-> <<>>,
   sizeRunFiles |-> 0, sizeDocFiles |-> 0, sizeSourceFiles |-> 0,
   digest |-> ZeroMD5, timePackaged |-> InvalidTimeT,
   archiveFileSize |-> 0, archiveFileDigest |-> ZeroMD5, path |-> ""]

\* PackageManager::WritePackageManifestFile(path, packageInfo, timePackaged):
\* the package manifest file, holding the package's description, file lists,
\* TDS digest and time stamp
WritePackageManifestFile(packageInfo, timePackaged) ==
  LET tpm == [id |-> packageInfo.id, version |-> packageInfo.version,
              ctanPath |-> packageInfo.ctanPath,
              requiredPackages |-> packageInfo.requiredPackages,
              runFiles |-> packageInfo.runFiles,
              docFiles |-> packageInfo.docFiles,
              sourceFiles |-> packageInfo.sourceFiles,
              sizeRunFiles |-> packageInfo.sizeRunFiles,
              sizeDocFiles |-> packageInfo.sizeDocFiles,
              sizeSourceFiles |-> packageInfo.sizeSourceFiles,
              digest |-> packageInfo.digest,
              timePackaged |-> timePackaged]
  IN  [size |-> 1 + Len(tpm.runFiles) + Len(tpm.docFiles) + Len(tpm.sourceFiles),
       data |-> tpm]

\* PackageManager::ReadPackageManifestFile
ReadPackageManifestFile(file) ==
  [NewPackageInfo EXCEPT
     !.id = file.data.id, !.version = file.data.version,
     !.ctanPath = file.data.ctanPath,
     !.requiredPackages = file.data.requiredPackages,
     !.runFiles = file.data.runFiles, !.docFiles = file.data.docFiles,
     !.sourceFiles = file.data.sourceFiles,
     !.sizeRunFiles = file.data.sizeRunFiles,
     !.sizeDocFiles = file.data.sizeDocFiles,
     !.sizeSourceFiles = file.data.sizeSourceFiles,
     !.digest = file.data.digest, !.timePackaged = file.data.timePackaged]

(***************************************************************************)
(* State                                                                   *)
(***************************************************************************)

VARIABLES
  mode,               \* "update" (--update-repository), "create" (--create-package)
                      \* or "tds" (--build-tds)
  listFiles,          \* the package list files on disk: name -> lines
  readStack,          \* the calls of ReadList under way: [path, line]
  texmfParent,        \* the directory --texmf-parent names: path -> file
  packageList,        \* map<string, PackageSpec> packageList, id -> level
  defaultLevel,       \* char defaultLevel
  staging,            \* the staging directories on disk: dir -> [ini, files]
  repo,               \* the repository directory on disk: file name -> file
  run,                \* the number of this run of the program
  programStartTime,   \* time_t programStartTime
  pc,                 \* the step of Run to execute next
  packageTable,       \* map<string, MpcPackageInfo> packageTable
  repositoryManifest, \* Cfg repositoryManifest
  todo,               \* the packages UpdateRepository's loop has yet to visit
  exitCode,           \* the result of main once the run has ended, else -1
  log,                \* what this run did to the repository, in order
  cwd,                \* the current working directory of the process
  prev                \* the database the previous run left, for comparison

vars == <<mode, listFiles, readStack, texmfParent, packageList, defaultLevel, staging, repo, run,
          programStartTime, pc, packageTable, repositoryManifest, todo,
          exitCode, log, cwd, prev>>

(***************************************************************************)
(* Levels and file classification                                          *)
(***************************************************************************)

\* PackageCreator::GetPackageLevel
GetPackageLevel(packageInfo) ==
  IF packageInfo.id \notin DOMAIN packageList THEN defaultLevel
  ELSE packageList[packageInfo.id].level

\* PackageCreator::IsToBeIgnored
IsToBeIgnored(packageInfo) == GetPackageLevel(packageInfo) = "-"

\* UpdateRepository without the test for pure containers
IsPureContainerPackageNever(packageInfo) == FALSE

\* PackageCreator::IsPureContainerPackage
IsPureContainerPackage(packageInfo) ==
  IF Len(packageInfo.docFiles) + Len(packageInfo.sourceFiles) = 0
  THEN LET n == Len(packageInfo.runFiles)
       IN  IF n = 0 THEN TRUE
           ELSE IF n = 1 THEN HasExtension(packageInfo.runFiles[1], ".tpm")
           ELSE FALSE
  ELSE FALSE

\* PackageCreator::IsInTeXMFDirectory
IsInTeXMFDirectory(relPath, subDir) ==
  LET texmfDirectory == texmfPrefix \o "/" \o subDir
  IN  ComparePrefixes(texmfDirectory, relPath, Len(texmfDirectory)) = 0

\* The three lists CollectFiles may append a file to
ListOf(relPath) ==
  IF IsInTeXMFDirectory(relPath, "doc") THEN "doc"
  ELSE IF IsInTeXMFDirectory(relPath, "source") THEN "source"
  ELSE "run"

\* PackageCreator::CollectFiles over the files of a Files/ tree, visited in
\* the order of their names: the three lists and their sizes
CollectFiles(files) ==
  LET paths == SetToSortedSeq(DOMAIN files)
      listed(l) == SelectSeq(paths, LAMBDA p : ListOf(p) = l)
      sizes(l) == SumSeq([i \in DOMAIN listed(l) |-> files[listed(l)[i]].size])
  IN  [runFiles |-> listed("run"), sizeRunFiles |-> sizes("run"),
       docFiles |-> listed("doc"), sizeDocFiles |-> sizes("doc"),
       sourceFiles |-> listed("source"), sizeSourceFiles |-> sizes("source")]

\* PackageCreator::CollectPackage: clears the file lists and collects anew
CollectPackage(packageInfo) ==
  LET c == CollectFiles(staging[packageInfo.path].files)
  IN  [packageInfo EXCEPT
         !.runFiles = c.runFiles, !.sizeRunFiles = c.sizeRunFiles,
         !.docFiles = c.docFiles, !.sizeDocFiles = c.sizeDocFiles,
         !.sourceFiles = c.sourceFiles, !.sizeSourceFiles = c.sizeSourceFiles]

\* PackageCreator::InitializePackageInfo: package.ini of a staging directory
InitializePackageInfo(stagingDir) ==
  LET ini == staging[stagingDir].ini
      opt(key) == IF key \in DOMAIN ini THEN ini[key] ELSE ""
  IN  [NewPackageInfo EXCEPT
         !.id = ini["id"],
         !.version = opt("version"),
         !.targetSystem = opt("targetsystem"),
         !.minTargetSystemVersion = opt("min_target_system_version"),
         !.requiredPackages =
            IF "requires" \in DOMAIN ini THEN ini["requires"] ELSE <<>>,
         !.digest = IF "MD5" \in DOMAIN ini THEN MD5Parse(ini["MD5"])
                    ELSE ZeroMD5,
         !.ctanPath = opt("ctan_path"),
         !.path = stagingDir]

RECURSIVE CollectPackagesFromLastWins(_, _)
\* CollectPackages storing every package it reads, collected before or not
CollectPackagesFromLastWins(dirs, table) ==
  IF dirs = <<>> THEN table
  ELSE IF IsToBeIgnored(InitializePackageInfo(Head(dirs)))
  THEN CollectPackagesFromLastWins(Tail(dirs), table)
  ELSE CollectPackagesFromLastWins(
         Tail(dirs),
         (InitializePackageInfo(Head(dirs)).id
            :> CollectPackage(InitializePackageInfo(Head(dirs)))) @@ table)

RECURSIVE DuplicateWarnings(_, _)
\* CollectPackages, "ignore duplicates": one warning for every staging
\* directory whose package was collected before; seen are the ids collected
DuplicateWarnings(dirs, seen) ==
  IF dirs = <<>> THEN <<>>
  ELSE IF IsToBeIgnored(InitializePackageInfo(Head(dirs)))
  THEN DuplicateWarnings(Tail(dirs), seen)
  ELSE IF InitializePackageInfo(Head(dirs)).id \in seen
  THEN << <<"warning", Head(dirs)>> >> \o DuplicateWarnings(Tail(dirs), seen)
  ELSE DuplicateWarnings(Tail(dirs),
                         seen \cup {InitializePackageInfo(Head(dirs)).id})

RECURSIVE CollectPackagesFrom(_, _)
\* PackageCreator::CollectPackages: the staging directories in the order the
\* directory lister gives them
CollectPackagesFrom(dirs, table) ==
  IF dirs = <<>> THEN table
  ELSE LET packageInfo == InitializePackageInfo(Head(dirs))
       IN  IF IsToBeIgnored(packageInfo)
           THEN CollectPackagesFrom(Tail(dirs), table)
           ELSE IF packageInfo.id \in DOMAIN table
           THEN CollectPackagesFrom(Tail(dirs), table)
           ELSE CollectPackagesFrom(Tail(dirs),
                  (packageInfo.id :> CollectPackage(packageInfo)) @@ table)

\* The digest of the files a staging directory really holds, taken as
\* MD5WildCopy and CopyPackage take it: package manifest files do not
\* contribute
FileDigestTable(files) ==
  [p \in {q \in DOMAIN files : ~HasExtension(q, ".tpm")} |->
     MD5Of(files[p].data)]

(***************************************************************************)
(* The categorizer (Run, autoCategorize)                                   *)
(***************************************************************************)

\* packageTable.find("_miktex-latex-packages"), find("_miktex-fonts-type1")
latexPackages == "_miktex-latex-packages"
fontsType1 == "_miktex-fonts-type1"

RECURSIVE Repeat(_, _)
Repeat(x, n) == IF n = 0 THEN <<>> ELSE <<x>> \o Repeat(x, n - 1)

Occurrences(seq, x) == Cardinality({i \in DOMAIN seq : seq[i] = x})

RECURSIVE RequiredByOf(_, _, _)
\* What the first loop pushes onto req's requiredBy: the id of every package
\* of the table, in table order, once per mention of req in its requires
RequiredByOf(table, ids, req) ==
  IF ids = <<>> THEN <<>>
  ELSE Repeat(table[Head(ids)].id,
              Occurrences(table[Head(ids)].requiredPackages, req))
         \o RequiredByOf(table, Tail(ids), req)

\* Run, "determine dependencies"
DetermineDependencies(table) ==
  [q \in DOMAIN table |->
     [table[q] EXCEPT
        !.requiredBy = @ \o RequiredByOf(table, SetToSortedSeq(DOMAIN table), q)]]

\* Utils::IsParentDirectoryOf
IsParentDirectoryOf(dir, path) == StartsWith(path, dir \o "/")

\* Run, the lambda isOutlineFont
isOutlineFont(s) ==
  \/ IsParentDirectoryOf("texmf/fonts/type1", s)
  \/ IsParentDirectoryOf("texmf/fonts/truetype", s)

\* Attach without the push_back onto the umbrella's requiredPackages
AttachOneWay(table, id, umbrella) ==
  [table EXCEPT ![id].requiredBy = Append(@, table[umbrella].id)]

\* pkg.requiredBy.push_back(umbrella.id); umbrella.requiredPackages.push_back(pkg.id)
Attach(table, id, umbrella) ==
  LET t1 == [table EXCEPT ![id].requiredBy = Append(@, table[umbrella].id)]
  IN  [t1 EXCEPT ![umbrella].requiredPackages = Append(@, t1[id].id)]

RECURSIVE CategorizeFromAny(_, _)
\* The scan of the table without the test pkg.second.requiredBy.empty()
CategorizeFromAny(ids, table) ==
  IF ids = <<>> THEN table
  ELSE CategorizeFromAny(
         Tail(ids),
         IF latexPackages \in DOMAIN table
            /\ StartsWith(table[Head(ids)].ctanPath, "/macros/latex/contrib/")
         THEN Attach(table, Head(ids), latexPackages)
         ELSE IF /\ fontsType1 \in DOMAIN table
                 /\ StartsWith(table[Head(ids)].ctanPath, "/fonts/")
                 /\ \E i \in DOMAIN table[Head(ids)].runFiles :
                       isOutlineFont(table[Head(ids)].runFiles[i])
         THEN Attach(table, Head(ids), fontsType1)
         ELSE table)

RECURSIVE CategorizeFrom(_, _)
\* Run, "categorize": one scan of the table
CategorizeFrom(ids, table) ==
  IF ids = <<>> THEN table
  ELSE LET pkg == table[Head(ids)]
           latex == latexPackages
           outlineFonts == fontsType1
           next ==
             IF pkg.requiredBy = <<>>
             THEN IF latex \in DOMAIN table
                     /\ StartsWith(pkg.ctanPath, "/macros/latex/contrib/")
                  THEN Attach(table, Head(ids), latex)
                  ELSE IF /\ outlineFonts \in DOMAIN table
                          /\ StartsWith(pkg.ctanPath, "/fonts/")
                          /\ \E i \in DOMAIN pkg.runFiles :
                                isOutlineFont(pkg.runFiles[i])
                  THEN Attach(table, Head(ids), outlineFonts)
                  ELSE table
             ELSE table
       IN  CategorizeFrom(Tail(ids), next)

\* The categorizer pass of --update-repository
AutoCategorize(table) ==
  LET t == DetermineDependencies(table)
  IN  CategorizeFrom(SetToSortedSeq(DOMAIN t), t)

(***************************************************************************)
(* The archive reconciler (CreateArchiveFile, UpdateRepository)            *)
(***************************************************************************)

\* A file of the repository directory
RepoFile(kind, data, mtime) == [kind |-> kind, data |-> data, mtime |-> mtime]

\* File::Delete / the destructor of TemporaryFile and TemporaryDirectory
DeleteFile(dir, name) == [n \in DOMAIN dir \ {name} |-> dir[n]]

\* File::GetSize of a file of the repository directory
FileSize(f) ==
  CASE f.kind \in {"archive", "tar"} ->
         SumSeq([i \in 1..Len(SetToSortedSeq(DOMAIN f.data)) |->
                   f.data[SetToSortedSeq(DOMAIN f.data)[i]].size])
    [] f.kind = "db1" ->
         SumSeq([i \in 1..Len(SetToSortedSeq(DOMAIN f.data)) |->
                   1 + Cardinality(DOMAIN f.data[SetToSortedSeq(DOMAIN f.data)[i]])])
    [] f.kind \in {"db2", "db3"} ->
         SumSeq([i \in 1..Len(SetToSortedSeq(DOMAIN f.data)) |->
                   f.data[SetToSortedSeq(DOMAIN f.data)[i]].size])
    [] f.kind = "csv" -> Len(f.data)
    [] OTHER -> 0

\* The bytes of a package archive: the files of its tree in path order,
\* a package manifest file as PackageManager writes it
TpmBytes(tpm) ==
  tpm.id \o ";" \o tpm.version \o ";" \o JoinWithSpace(tpm.requiredPackages)
  \o ";" \o JoinWithSpace(tpm.runFiles) \o ";" \o JoinWithSpace(tpm.docFiles)
  \o ";" \o JoinWithSpace(tpm.sourceFiles) \o ";" \o DigestBytes(tpm.digest)
  \o ";" \o (IF tpm.timePackaged < 0 THEN "" ELSE to_string(tpm.timePackaged))

ArchiveBytes(tree) ==
  LET paths == SetToSortedSeq(DOMAIN tree)
  IN  Concat([i \in DOMAIN paths |->
                paths[i] \o ":"
                \o (IF HasExtension(paths[i], ".tpm")
                    THEN TpmBytes(tree[paths[i]].data)
                    ELSE tree[paths[i]].data) \o "\n"])

\* PackageCreator::GetFileNameExtension
GetFileNameExtension(archiveFileType) ==
  CASE archiveFileType = "MSCab" -> ".cab"
    [] archiveFileType = "TarBzip2" -> ".tar.bz2"
    [] archiveFileType = "TarLzma" -> ".tar.lzma"
    [] archiveFileType = "Tar" -> ".tar"

\* ArchiveFileType defaultArchiveFileType = ArchiveFileType::TarLzma
defaultArchiveFileType == "TarLzma"

\* HavePackageArchiveFile returning at the first file it finds
HavePackageArchiveFileFirstWins(dir, packageId) ==
  IF AppendExtension(packageId, ".cab") \in DOMAIN dir
  THEN [archiveFile |-> AppendExtension(packageId, ".cab"),
        archiveFileType |-> "MSCab"]
  ELSE IF AppendExtension(packageId, ".tar.bz2") \in DOMAIN dir
  THEN [archiveFile |-> AppendExtension(packageId, ".tar.bz2"),
        archiveFileType |-> "TarBzip2"]
  ELSE IF AppendExtension(packageId, ".tar.lzma") \in DOMAIN dir
  THEN [archiveFile |-> AppendExtension(packageId, ".tar.lzma"),
        archiveFileType |-> "TarLzma"]
  ELSE [archiveFile |-> "", archiveFileType |-> "None"]

\* HavePackageArchiveFile without its third probe
HavePackageArchiveFileNoLzma(dir, packageId) ==
  IF AppendExtension(packageId, ".tar.bz2") \in DOMAIN dir
  THEN [archiveFile |-> AppendExtension(packageId, ".tar.bz2"),
        archiveFileType |-> "TarBzip2"]
  ELSE IF AppendExtension(packageId, ".cab") \in DOMAIN dir
  THEN [archiveFile |-> AppendExtension(packageId, ".cab"),
        archiveFileType |-> "MSCab"]
  ELSE [archiveFile |-> "", archiveFileType |-> "None"]

\* PackageCreator::HavePackageArchiveFile: .cab, then .tar.bz2, then
\* .tar.lzma; the last one found is the one reported
HavePackageArchiveFile(dir, packageId) ==
  LET probe(have, type) ==
        LET archiveFile2 == AppendExtension(packageId, GetFileNameExtension(type))
        IN  IF archiveFile2 \in DOMAIN dir
            THEN [archiveFile |-> archiveFile2, archiveFileType |-> type]
            ELSE have
  IN  probe(probe(probe([archiveFile |-> "", archiveFileType |-> "None"],
                        "MSCab"), "TarBzip2"), "TarLzma")

\* Whether the repository manifest records the package's digest and a time
ManifestAgrees(manifest, packageInfo) ==
  /\ TryGetValueAsString(manifest, packageInfo.id, "MD5")
  /\ MD5Parse(GetValue(manifest, packageInfo.id, "MD5")) = packageInfo.digest
  /\ TryGetValueAsString(manifest, packageInfo.id, "TimePackaged")

\* CreateArchiveFile with the #else branch of "don't remake archive file"
\* compiled out: an archive the manifest does not vouch for is remade
CheckExistingNoExtract(packageInfo, dir, manifest, have) ==
  IF have.archiveFileType # "None" /\ ManifestAgrees(manifest, packageInfo)
  THEN [reuseExisting |-> TRUE,
        timePackaged |-> ToTimeT(GetValue(manifest, packageInfo.id, "TimePackaged")),
        extracts |-> FALSE, failed |-> FALSE]
  ELSE [reuseExisting |-> FALSE, timePackaged |-> packageInfo.timePackaged,
        extracts |-> FALSE, failed |-> FALSE]

\* CreateArchiveFile, "don't remake archive file if there are no changes":
\* whether the archive found is kept, the time stamp taken over from the
\* manifest or from the archive's own package manifest file, and whether
\* the package manifest file was extracted and could be
CheckExisting(packageInfo, dir, manifest, have) ==
  IF have.archiveFileType = "None"
  THEN [reuseExisting |-> FALSE, timePackaged |-> packageInfo.timePackaged,
        extracts |-> FALSE, failed |-> FALSE]
  ELSE IF ManifestAgrees(manifest, packageInfo)
  THEN [reuseExisting |-> TRUE,
        timePackaged |-> ToTimeT(GetValue(manifest, packageInfo.id, "TimePackaged")),
        extracts |-> FALSE, failed |-> FALSE]
  ELSE IF TpmPath(packageInfo.id) \notin DOMAIN dir[have.archiveFile].data
  THEN [reuseExisting |-> FALSE, timePackaged |-> packageInfo.timePackaged,
        extracts |-> TRUE, failed |-> TRUE]
  ELSE IF packageInfo.digest =
            ReadPackageManifestFile(
              dir[have.archiveFile].data[TpmPath(packageInfo.id)]).digest
  THEN [reuseExisting |-> TRUE,
        timePackaged |->
          ReadPackageManifestFile(
            dir[have.archiveFile].data[TpmPath(packageInfo.id)]).timePackaged,
        extracts |-> TRUE, failed |-> FALSE]
  ELSE [reuseExisting |-> FALSE, timePackaged |-> packageInfo.timePackaged,
        extracts |-> TRUE, failed |-> FALSE]

\* CreateArchiveFile with "keep the time-stamp, if possible" compiled out
NewTimePackagedNow(packageInfo, manifest, now) == now

\* CreateArchiveFile, "keep the time-stamp, if possible"
NewTimePackaged(packageInfo, manifest, now) ==
  IF ManifestAgrees(manifest, packageInfo)
  THEN ToTimeT(GetValue(manifest, packageInfo.id, "TimePackaged"))
  ELSE now

\* tar -rf <tarFile> texmf, run in Files/: all that lies under texmf
TarTree(files) ==
  [p \in {q \in DOMAIN files : StartsWith(q, texmfPrefix \o "/")} |-> files[p]]

\* CreateArchiveFile, the end: size and digest of the archive file, then
\* File::SetTimes gives it the package's time stamp
StampArchive(packageInfo, dir, archiveFile, archiveFileType, files, rebuilt, cmds) ==
  [failed |-> FALSE,
   packageInfo |->
     [packageInfo EXCEPT
        !.archiveFileSize = FileSize(dir[archiveFile]),
        !.archiveFileDigest = MD5Of(ArchiveBytes(dir[archiveFile].data))],
   dir |-> [dir EXCEPT ![archiveFile].mtime = packageInfo.timePackaged],
   files |-> files,
   rebuilt |-> rebuilt,
   archiveFileType |-> archiveFileType,
   cmds |-> cmds \o << <<"settimes", archiveFile>> >>]

\* CreateArchiveFile returning, for an archive made anew, the archive file
\* type the package list gives the package (GetPackageArchiveFileType)
MakeArchiveOfListedType(packageInfo, dir, files, archiveFile, cmds) ==
  StampArchive(packageInfo,
               (archiveFile :> RepoFile("archive", TarTree(files), 0))
                 @@ DeleteFile(dir, AppendExtension(packageInfo.id, ".tar")),
               archiveFile,
               IF packageInfo.id \in DOMAIN packageList
               THEN packageList[packageInfo.id].archiveFileType
               ELSE defaultArchiveFileType,
               files, TRUE,
               cmds \o << <<"tar", AppendExtension(packageInfo.id, ".tar")>>,
                          <<"compress", archiveFile>> >>)

\* CreateArchiveFile, if (!reuseExisting): the package manifest file is
\* written into the staging directory, the tree is put into a .tar file,
\* the .tar file is compressed over the archive file and deleted
MakeArchive(packageInfo, dir, files, archiveFile, cmds) ==
  StampArchive(packageInfo,
               (archiveFile :> RepoFile("archive", TarTree(files), 0))
                 @@ DeleteFile(dir, AppendExtension(packageInfo.id, ".tar")),
               archiveFile, defaultArchiveFileType, files, TRUE,
               cmds
               \o << <<"tar", AppendExtension(packageInfo.id, ".tar")>>,
                     <<"tar", AppendExtension(packageInfo.id, ".tar")>> >>
               \o (IF archiveFile \in DOMAIN dir
                   THEN << <<"delete", archiveFile>> >> ELSE <<>>)
               \o << <<"compress", archiveFile>>,
                     <<"delete", AppendExtension(packageInfo.id, ".tar")>> >>)

\* CreateArchiveFile once the existing archive has been looked at
ReuseOrMake(packageInfo, dir, have, existing, cmds) ==
  IF existing.failed
  THEN [failed |-> TRUE, cmds |-> cmds \o << <<"failed", have.archiveFile>> >>]
  ELSE IF existing.reuseExisting
  THEN StampArchive(packageInfo, dir, have.archiveFile, have.archiveFileType,
                    <<>>, FALSE, cmds)
  \* Directory::SetCurrent(packageInfo.path) fails for a package that has
  \* no staging directory
  ELSE IF packageInfo.path \notin DOMAIN staging
  THEN [failed |-> TRUE, cmds |-> cmds \o << <<"failed", packageInfo.path>> >>]
  ELSE MakeArchive(packageInfo, dir,
                   (TpmPath(packageInfo.id)
                      :> WritePackageManifestFile(packageInfo, packageInfo.timePackaged))
                     @@ staging[packageInfo.path].files,
                   AppendExtension(packageInfo.id,
                                   GetFileNameExtension(defaultArchiveFileType)),
                   cmds)

\* The package record with the time stamp CreateArchiveFile decides on
WithTimePackaged(packageInfo, manifest, now, existing) ==
  [packageInfo EXCEPT
     !.timePackaged =
        IF existing.reuseExisting THEN existing.timePackaged
        ELSE NewTimePackaged(packageInfo, manifest, now)]

CheckedArchiveFile(packageInfo, dir, manifest, now, have, existing) ==
  ReuseOrMake(WithTimePackaged(packageInfo, manifest, now, existing), dir, have,
              existing,
              IF existing.extracts
              THEN << <<"extract", have.archiveFile>> >> ELSE <<>>)

FoundArchiveFile(packageInfo, dir, manifest, now, have) ==
  CheckedArchiveFile(packageInfo, dir, manifest, now, have,
                     CheckExisting(packageInfo, dir, manifest, have))

\* PackageCreator::CreateArchiveFile.  The result: the package record as
\* updated, the repository directory and the staging files afterwards, the
\* type returned, what was done (cmds), and whether a command failed.
CreateArchiveFile(packageInfo, dir, manifest, now) ==
  FoundArchiveFile(packageInfo, dir, manifest, now,
                   HavePackageArchiveFile(dir, packageInfo.id))

\* The directory the program is started in; --repository and the staging
\* root as the command line gives them, fully qualified
startDirectory == "/work"
repository == "/repository"
stagingRoot == "/staging"

\* Directory::SetCurrent
SetCurrent(current, path) ==
  IF StartsWith(path, "/") THEN path ELSE current \o "/" \o path

\* RestoreCurrentDirectory: the constructor keeps the current directory in
\* oldPath and enters path, the destructor goes back to oldPath
RestoreCurrentDirectory(current, path) ==
  [oldPath |-> current, entered |-> SetCurrent(current, path)].oldPath

\* The current directory when CreateArchiveFile returns: a rebuild enters
\* the staging directory of the package with Directory::SetCurrent, and
\* Files and the repository within RestoreCurrentDirectory scopes
CurrentAfterCreateArchiveFile(current, packageInfo, rebuilt) ==
  IF rebuilt
  THEN RestoreCurrentDirectory(
         RestoreCurrentDirectory(
           SetCurrent(current, stagingRoot \o "/" \o packageInfo.path), "Files"),
         repository)
  ELSE current

\* UpdateRepository, the Type value put into the manifest
TypeName(archiveFileType) ==
  IF archiveFileType = "MSCab" THEN "MSCab"
  ELSE IF archiveFileType = "TarBzip2" THEN "TarBzip2"
  ELSE IF archiveFileType = "TarLzma" THEN "TarLzma"
  ELSE "unknown"

\* UpdateRepository, a value put when the field of the package holds
\* something, and deleted when the field is empty and the value is there
PutOrDelete(cfg, section, key, field) ==
  IF field = ""
  THEN IF TryGetValueAsString(cfg, section, key)
       THEN DeleteValue(cfg, section, key) ELSE cfg
  ELSE PutValue(cfg, section, key, field)

\* UpdateRepository, the puts of MD5, TimePackaged, CabSize, CabMD5, Type
PutArchiveValues(manifest, p, archiveFileType) ==
  PutValue(
    PutValue(
      PutValue(
        PutValue(
          PutValue(manifest, p.id, "MD5", MD5ToString(p.digest)),
          p.id, "TimePackaged", to_string(p.timePackaged)),
        p.id, "CabSize", to_string(p.archiveFileSize)),
      p.id, "CabMD5", MD5ToString(p.archiveFileDigest)),
    p.id, "Type", TypeName(archiveFileType))

\* The manifest update with the optional values put as BuildTDS puts them:
\* a value is left alone when the field is empty
UpdateManifestNoDelete(manifest, p, archiveFileType) ==
  LET put(cfg, key, field) ==
        IF field = "" THEN cfg ELSE PutValue(cfg, p.id, key, field)
  IN  put(put(put(PutArchiveValues(manifest, p, archiveFileType),
                  "Version", p.version),
              "TargetSystem", p.targetSystem),
          "MinTargetSystemVersion", p.minTargetSystemVersion)

\* UpdateRepository, "update repository manifest": the puts that follow
\* CreateArchiveFile
UpdateManifest(manifest, p, archiveFileType) ==
  PutOrDelete(
    PutOrDelete(
      PutOrDelete(PutArchiveValues(manifest, p, archiveFileType),
                  p.id, "Version", p.version),
      p.id, "TargetSystem", p.targetSystem),
    p.id, "MinTargetSystemVersion", p.minTargetSystemVersion)

(***************************************************************************)
(* The database writer (WriteDatabase and what it calls)                   *)
(***************************************************************************)

\* VersionNumber majorMinorVersion, as a string
majorMinorVersion == "2.9"

\* PackageCreator::GetDbArchiveFileType (majorMinorVersion is not below 2.7)
GetDbArchiveFileType == "TarLzma"

\* PackageCreator::GetDbFileName
GetDbFileName(id) ==
  "miktex-zzdb" \o to_string(id) \o "-" \o majorMinorVersion
    \o GetFileNameExtension(GetDbArchiveFileType)

GetRepositoryManifestArchiveFileName == GetDbFileName(1)
GetTpmArchiveFileName == GetDbFileName(2)
GetPackageManifestsArchiveFileName == GetDbFileName(3)

\* PackageCreator::RunArchiver: deletes the archive file if there is one,
\* then runs tar piped into the compressor
RunArchiver(dir, archiveFile, content) ==
  [dir |-> (archiveFile :> content) @@ dir,
   cmds |-> (IF archiveFile \in DOMAIN dir
             THEN << <<"delete", archiveFile>> >> ELSE <<>>)
            \o << <<"archive", archiveFile>> >>]

RECURSIVE DeleteKeys(_, _)
DeleteKeys(cfg, names) ==
  IF names = <<>> THEN cfg ELSE DeleteKeys(DeleteKey(cfg, Head(names)), Tail(names))

\* WriteDatabase with nothing found obsolete
ObsoletePackagesNone(manifest, table) == <<>>

\* WriteDatabase, removeObsoleteSections: the sections whose package is not
\* in the table or is to be ignored
ObsoletePackages(manifest, table) ==
  SelectSeq(SetToSortedSeq(DOMAIN manifest),
            LAMBDA key : key \notin DOMAIN table \/ IsToBeIgnored(table[key]))

RemoveObsoleteSections(manifest, table) ==
  DeleteKeys(manifest, ObsoletePackages(manifest, table))

\* The time stamp WritePackageManifestFiles and DumpPackageManifests give a
\* package: the manifest's TimePackaged, else InvalidTimeT
ManifestTimePackaged(manifest, id) ==
  IF TryGetValueAsString(manifest, id, "TimePackaged")
  THEN ToTimeT(GetValue(manifest, id, "TimePackaged"))
  ELSE InvalidTimeT

\* PackageCreator::WritePackageManifestFiles: one .tpm per package that is
\* not to be ignored
WritePackageManifestFiles(table, manifest) ==
  [id \in {i \in DOMAIN table : ~IsToBeIgnored(table[i])} |->
     WritePackageManifestFile(table[id], ManifestTimePackaged(manifest, table[id].id))]

\* PackageCreator::DumpPackageManifests: package-manifests.ini
DumpPackageManifests(table, manifest) ==
  [id \in {i \in DOMAIN table : ~IsToBeIgnored(table[i])} |->
     WritePackageManifestFile(table[id], ManifestTimePackaged(manifest, table[id].id))]

RECURSIVE FileListLines(_, _)
\* CreateFileListFile: the lines of the packages, in table order, before
\* they are sorted
FileListLines(ids, table) ==
  IF ids = <<>> THEN <<>>
  ELSE LET p == table[Head(ids)]
           prefixLength == Len(texmfPrefix) + 1
           line(fileName) ==
             SubSeq(fileName, prefixLength + 1, Len(fileName)) \o ";" \o p.id
           lines(files) == [i \in DOMAIN files |-> line(files[i])]
       IN  (IF IsToBeIgnored(p) THEN <<>>
            ELSE lines(p.docFiles) \o lines(p.runFiles) \o lines(p.sourceFiles))
             \o FileListLines(Tail(ids), table)

\* CreateFileListFile without sort(lines.begin(), lines.end())
CreateFileListFileUnsorted(table) ==
  FileListLines(SetToSortedSeq(DOMAIN table), table)

\* PackageCreator::CreateFileListFile: the contents of files.csv
CreateFileListFile(table) ==
  Sort(FileListLines(SetToSortedSeq(DOMAIN table), table))

RECURSIVE ToBeDeleted(_, _)
\* CleanUp, the first loop: the paths pushed onto toBeDeleted
ToBeDeleted(names, dir) ==
  IF names = <<>> THEN <<>>
  ELSE LET path == Head(names)
           exists(path2) == path2 \in DOMAIN dir
           found ==
             IF HasExtension(path, ".cab")
             THEN (IF exists(AppendExtension(path, ".tar.bz2"))
                   THEN <<path>> ELSE <<>>)
                  \o (IF exists(AppendExtension(path, ".tar.lzma"))
                      THEN <<path>> ELSE <<>>)
             ELSE IF HasExtension(path, ".bz2")
             THEN IF exists(AppendExtension(path, ".lzma"))
                  THEN <<path>> ELSE <<>>
             ELSE <<>>
       IN  found \o ToBeDeleted(Tail(names), dir)

RECURSIVE DeleteAll(_, _)
\* CleanUp, the second loop: Verbose("Removing ...") and File::Delete for
\* each path in turn.  File::Delete of a file that is no longer there
\* throws, and the paths behind it are left alone
DeleteAll(dir, names) ==
  IF names = <<>> THEN [dir |-> dir, failed |-> FALSE, cmds |-> <<>>]
  ELSE IF Head(names) \notin DOMAIN dir
  THEN [dir |-> dir, failed |-> TRUE, cmds |-> << <<"remove", Head(names)>> >>]
  ELSE [DeleteAll(DeleteFile(dir, Head(names)), Tail(names))
          EXCEPT !.cmds = << <<"remove", Head(names)>> >> \o @]

\* PackageCreator::CleanUp
CleanUp(dir) ==
  [DeleteAll(dir, ToBeDeleted(SetToSortedSeq(DOMAIN dir), dir))
     EXCEPT !.cmds = << <<"cleanup", "">> >> \o @]

\* const time_t t2000
t2000 == 946681200

\* if (++count == 20) break;
LastUpdLimit == 20

RECURSIVE InsertPackagedOn(_, _, _)
\* set<MpcPackageInfo, PackagedOnReversed>::insert.  PackagedOnReversed is
\* pi1.timePackaged >= pi2.timePackaged, which is no strict weak ordering:
\* where the new element lands among elements of the same time depends on
\* the library (before them all, or after them all)
InsertPackagedOn(s, pi, tiesFirst) ==
  IF s = <<>> THEN <<pi>>
  ELSE IF (IF tiesFirst THEN pi.timePackaged >= Head(s).timePackaged
           ELSE pi.timePackaged > Head(s).timePackaged)
  THEN <<pi>> \o s
  ELSE <<Head(s)>> \o InsertPackagedOn(Tail(s), pi, tiesFirst)

RECURSIVE PackagedOnReversed(_, _, _, _)
\* CreateRepositoryInformationFile, the first loop: every package of the
\* table with the time the manifest records for it
PackagedOnReversed(ids, table, manifest, tiesFirst) ==
  IF ids = <<>> THEN <<>>
  ELSE InsertPackagedOn(
         PackagedOnReversed(SubSeq(ids, 1, Len(ids) - 1), table, manifest, tiesFirst),
         [id |-> table[ids[Len(ids)]].id,
          timePackaged |-> ManifestTimePackaged(manifest, table[ids[Len(ids)]].id)],
         tiesFirst)

\* The second loop without its break
LastUpdAll(table, manifest, tiesFirst) ==
  [i \in DOMAIN PackagedOnReversed(SetToSortedSeq(DOMAIN table), table, manifest,
                                   tiesFirst) |->
     PackagedOnReversed(SetToSortedSeq(DOMAIN table), table, manifest,
                        tiesFirst)[i].id]

\* CreateRepositoryInformationFile, the second loop: the ids of lastupd
LastUpd(table, manifest, tiesFirst) ==
  LET s == PackagedOnReversed(SetToSortedSeq(DOMAIN table), table, manifest, tiesFirst)
  IN  [i \in 1..Min(Len(s), LastUpdLimit) |-> s[i].id]

\* The [repository] section CreateRepositoryInformationFile writes first
RepositoryInformation(table, manifest, now, tiesFirst) ==
  [date |-> to_string(now),
   version |-> to_string((now - t2000) \div (60 * 60 * 24)),
   lstdigest |-> MD5ToString(MD5Of("")),
   numpkg |-> to_string(GetSize(manifest)),
   lastupd |-> JoinWithSpace(LastUpd(table, manifest, tiesFirst)),
   relstate |-> "stable"]

\* The size of pr.ini as Cfg::Write writes it: the section header and one
\* key=value line per value; a digest is written as 32 hexadecimal digits
IniFileSize(cfg) ==
  Len("[repository]\n")
  + Len("date=") + Len(cfg.date) + 1
  + Len("version=") + Len(cfg.version) + 1
  + Len("lstdigest=") + 32 + 1
  + Len("numpkg=") + Len(cfg.numpkg) + 1
  + Len("lastupd=") + Len(cfg.lastupd) + 1
  + Len("relstate=") + Len(cfg.relstate) + 1

\* File::GetSize of any entry of the repository directory
EntrySize(f) == IF f.kind = "ini" THEN IniFileSize(f.data) ELSE FileSize(f)

\* The lines of a listing taken before pr.ini is there
ListingLinesBeforePrIni(names, dir) ==
  [i \in DOMAIN SelectSeq(names, LAMBDA n : n # "pr.ini") |->
     SelectSeq(names, LAMBDA n : n # "pr.ini")[i] \o ";"
       \o to_string(EntrySize(dir[SelectSeq(names, LAMBDA n : n # "pr.ini")[i]]))
       \o "\n"]

\* CreateRepositoryInformationFile: the lines <name>;<size>\n of the
\* entries of the directory, in the order the lister gives them
ListingLines(names, dir) ==
  [i \in DOMAIN names |->
     names[i] \o ";" \o to_string(EntrySize(dir[names[i]])) \o "\n"]

\* CreateRepositoryInformationFile: the digest of the sorted listing
ListDigest(names, dir) == MD5Of(Concat(Sort(ListingLines(names, dir))))

\* WriteDatabase with CleanUp called after CreateRepositoryInformationFile
AfterStepCleanUpLast(step) ==
  CASE step = "zzdb1" -> "zzdb2"
    [] step = "zzdb2" -> "zzdb3"
    [] step = "zzdb3" -> "filelist"
    [] step = "filelist" -> "prini1"
    [] step = "prini1" -> "prini2"
    [] step = "prini2" -> "cleanup"
    [] step = "cleanup" -> "done"

\* The steps of WriteDatabase, in the order of its statements
AfterStep(step) ==
  CASE step = "zzdb1" -> "zzdb2"
    [] step = "zzdb2" -> "zzdb3"
    [] step = "zzdb3" -> "filelist"
    [] step = "filelist" -> "cleanup"
    [] step = "cleanup" -> "prini1"
    [] step = "prini1" -> "prini2"
    [] step = "prini2" -> "done"

(***************************************************************************)
(* The inputs of a run: staging directories, package list, repository      *)
(***************************************************************************)

\* How many times the program is run in a row on the same inputs
MaxRuns == 2

\* The time of the run-th run of the program (time(nullptr))
StartTimeOf(n) == 1700000000 + n * 86400

\* Times recorded by earlier runs: in the manifest, in an archive's own
\* package manifest file, and for the package bar
OldManifestTime == StartTimeOf(0) - 3 * 86400
OldEmbeddedTime == StartTimeOf(0) - 5 * 86400
OldBarTime == StartTimeOf(0) - 3 * 86400

\* The digest of other contents than any staging directory holds
OtherDigest == GetTdsDigest(("texmf/tex/old.sty" :> MD5Of(RegFile(10, 0).data)))

\* The package manifest file an earlier run wrote for id
OldTpm(id, digest, time) ==
  WritePackageManifestFile([NewPackageInfo EXCEPT !.id = id, !.digest = digest], time)

\* The Files/ trees the staging directory of foo may hold
FooFileSets ==
  { <<>>,
    ("texmf/tex/a.sty" :> RegFile(10, 1)),
    ("texmf/tex/a.sty" :> RegFile(10, 1)) @@ ("texmf/doc/a.pdf" :> RegFile(7, 2))
      @@ (TpmPath("foo") :> OldTpm("foo", OtherDigest, OldEmbeddedTime)) }

BarFiles ==
  ("texmf/doc/b.pdf" :> RegFile(5, 3)) @@ ("texmf/source/b.dtx" :> RegFile(6, 4))

\* package.ini may carry the digest of the files, a stale digest, or none
Md5Keys(files) ==
  { <<>>,
    ("MD5" :> MD5ToString(GetTdsDigest(FileDigestTable(files)))),
    ("MD5" :> MD5ToString(OtherDigest)) }

\* The package list and the default level
LevelSettings ==
  { [list |-> <<>>, default |-> "T"],
    [list |-> ("foo" :> [level |-> "-", archiveFileType |-> "TarLzma"]),
     default |-> "T"],
    [list |-> ("foo" :> [level |-> "S", archiveFileType |-> "TarBzip2"]),
     default |-> "-"],
    [list |-> <<>>, default |-> "-"] }

\* The package archives of foo an earlier run may have left, each holding
\* the package manifest file it was built with
FooArchiveSettings(digest) ==
  { [types |-> {}, digest |-> digest],
    [types |-> {"TarLzma"}, digest |-> digest],
    [types |-> {"TarLzma"}, digest |-> OtherDigest],
    [types |-> {"MSCab", "TarBzip2"}, digest |-> digest],
    [types |-> {"MSCab"}, digest |-> OtherDigest],
    [types |-> {"TarBzip2"}, digest |-> OtherDigest] }

\* The section of foo in the repository manifest of an earlier run
FooSections(digest) ==
  LET rest == ("Level" :> "T") @@ ("CabSize" :> "11")
                @@ ("CabMD5" :> MD5ToString(OtherDigest)) @@ ("Type" :> "TarLzma")
  IN  { <<>>,
        ("foo" :> (("MD5" :> MD5ToString(digest))
                     @@ ("TimePackaged" :> to_string(OldManifestTime)) @@ rest)),
        ("foo" :> (("MD5" :> MD5ToString(OtherDigest))
                     @@ ("TimePackaged" :> to_string(OldManifestTime)) @@ rest)),
        ("foo" :> (("MD5" :> MD5ToString(digest)) @@ rest)) }

BarDigest == GetTdsDigest(FileDigestTable(BarFiles))

BarTpm ==
  WritePackageManifestFile(
    [NewPackageInfo EXCEPT
       !.id = "bar", !.digest = BarDigest,
       !.docFiles = <<"texmf/doc/b.pdf">>, !.sizeDocFiles = 5,
       !.sourceFiles = <<"texmf/source/b.dtx">>, !.sizeSourceFiles = 6],
    OldBarTime)

BarArchive == RepoFile("archive", (TpmPath("bar") :> BarTpm) @@ BarFiles, OldBarTime)

BarSection ==
  ("bar" :> (("Level" :> "T") @@ ("MD5" :> MD5ToString(BarDigest))
               @@ ("TimePackaged" :> to_string(OldBarTime))
               @@ ("CabSize" :> to_string(FileSize(BarArchive)))
               @@ ("CabMD5" :> MD5ToString(MD5Of(ArchiveBytes(BarArchive.data))))
               @@ ("Type" :> "TarLzma")))

\* A repository as an earlier run left it
OldRepository(fooArchives, fooSection, withBar) ==
  LET fooArchive ==
        RepoFile("archive",
                 (TpmPath("foo") :> OldTpm("foo", fooArchives.digest, OldEmbeddedTime))
                   @@ ("texmf/tex/a.sty" :> RegFile(10, 1)),
                 OldEmbeddedTime)
      manifest == IF withBar THEN BarSection @@ fooSection ELSE fooSection
      tpms ==
        [id \in DOMAIN manifest |->
           IF id = "bar" THEN BarTpm
           ELSE OldTpm(id, MD5Parse(manifest[id]["MD5"]), OldManifestTime)]
      info == [date |-> to_string(OldManifestTime), version |-> "0",
               lstdigest |-> MD5ToString(MD5Of("")),
               numpkg |-> to_string(GetSize(manifest)), lastupd |-> "",
               relstate |-> "stable"]
  IN  [n \in {AppendExtension("foo", GetFileNameExtension(t)) : t \in fooArchives.types}
         |-> fooArchive]
      @@ (IF withBar THEN ("bar.tar.lzma" :> BarArchive) ELSE <<>>)
      @@ (GetRepositoryManifestArchiveFileName :> RepoFile("db1", manifest, 0))
      @@ (GetTpmArchiveFileName :> RepoFile("db2", tpms, 0))
      @@ (GetPackageManifestsArchiveFileName :> RepoFile("db3", tpms, 0))
      @@ ("files.csv.lzma" :> RepoFile("csv", <<>>, 0))
      @@ ("pr.ini" :> RepoFile("ini", info, 0))

\* The digest InitializePackageInfo gives a package with this package.ini
IniDigest(ini) == IF "MD5" \in DOMAIN ini THEN MD5Parse(ini["MD5"]) ELSE ZeroMD5

Init ==
  /\ mode \in {"update", "create"}
  /\ \E l \in LevelSettings :
       /\ packageList = l.list
       /\ defaultLevel = l.default
  /\ \E fooFiles \in FooFileSets, withBar \in BOOLEAN :
       \E md5 \in Md5Keys(fooFiles) :
         /\ staging =
              ("bar" :> [ini |-> ("id" :> "bar") @@ ("name" :> "Bar")
                                  @@ ("MD5" :> MD5ToString(BarDigest)),
                         files |-> IF withBar
                                   THEN (TpmPath("bar") :> BarTpm) @@ BarFiles
                                   ELSE BarFiles])
              @@ ("foo" :> [ini |-> ("id" :> "foo") @@ ("name" :> "Foo")
                                      @@ ("requires" :> <<"bar">>) @@ md5,
                            files |-> fooFiles])
         /\ \/ repo = <<>> /\ ~withBar
            \/ \E a \in FooArchiveSettings(IniDigest(md5)),
                  sec \in FooSections(IniDigest(md5)) :
                 repo = OldRepository(a, sec, withBar)
  /\ run = 1
  /\ programStartTime = StartTimeOf(1)
  /\ pc = "start"
  /\ packageTable = <<>>
  /\ repositoryManifest = EmptyCfg
  /\ todo = <<>>
  /\ exitCode = 0 - 1
  /\ log = <<>>
  /\ cwd = startDirectory
  /\ listFiles = <<>>
  /\ readStack = <<>>
  /\ texmfParent = <<>>
  /\ prev = [exitCode |-> 0 - 1, repo |-> repo, staging |-> staging]

(***************************************************************************)
(* The steps of PackageCreator::Run                                        *)
(***************************************************************************)

\* FatalError: throw 1, caught in main, which returns it
FatalError ==
  /\ pc' = "done"
  /\ exitCode' = 1

\* PackageCreator::LoadRepositoryManifest: mpm.ini out of the repository
\* manifest archive
LoadRepositoryManifest == repo[GetRepositoryManifestArchiveFileName].data

\* PackageCreator::LoadPackageManifests: the package manifest files of the
\* TPM archive, each under the name of its file
LoadPackageManifests ==
  LET tpms == repo[GetTpmArchiveFileName].data
  IN  [id \in DOMAIN tpms |-> [ReadPackageManifestFile(tpms[id]) EXCEPT !.id = id]]

\* The staging directories of the staging roots, as the lister gives them
StagingDirs == SetToSortedSeq(DOMAIN staging)

\* --staging-dir of --create-package
stagingDir == "foo"

\* Run, --update-repository: collect the packages, load the manifest
CollectUpdate ==
  /\ pc = "start" /\ mode = "update"
  /\ LET table == CollectPackagesFrom(StagingDirs, <<>>)
     IN  IF table = <<>>
         THEN /\ FatalError
              /\ UNCHANGED <<packageTable, repositoryManifest, log>>
         ELSE IF GetRepositoryManifestArchiveFileName \notin DOMAIN repo
         THEN /\ FatalError
              /\ packageTable' = table
              /\ log' = log \o DuplicateWarnings(StagingDirs, {})
              /\ UNCHANGED repositoryManifest
         \* ExtractFile fails on an archive that is no archive
         ELSE IF repo[GetRepositoryManifestArchiveFileName].kind # "db1"
         THEN /\ FatalError
              /\ packageTable' = table
              /\ log' = log \o DuplicateWarnings(StagingDirs, {})
                             \o << <<"extract", GetRepositoryManifestArchiveFileName>>,
                                   <<"failed", GetRepositoryManifestArchiveFileName>> >>
              /\ UNCHANGED repositoryManifest
         ELSE /\ packageTable' = table
              /\ repositoryManifest' = LoadRepositoryManifest
              /\ log' = log \o DuplicateWarnings(StagingDirs, {})
                             \o << <<"extract", GetRepositoryManifestArchiveFileName>> >>
              /\ pc' = "categorize"
              /\ UNCHANGED exitCode
  /\ UNCHANGED <<listFiles, readStack, texmfParent, mode, packageList, defaultLevel, cwd, staging, repo, run,
                 programStartTime, todo, prev>>

\* Run, --create-package: load manifest and package manifests, read the
\* staging directory
CollectCreate ==
  /\ pc = "start" /\ mode = "create"
  /\ IF GetRepositoryManifestArchiveFileName \notin DOMAIN repo
     THEN /\ FatalError
          /\ UNCHANGED <<packageTable, repositoryManifest, log, todo>>
     ELSE IF GetTpmArchiveFileName \notin DOMAIN repo
     THEN /\ FatalError
          /\ repositoryManifest' = LoadRepositoryManifest
          /\ log' = log \o << <<"extract", GetRepositoryManifestArchiveFileName>> >>
          /\ UNCHANGED <<packageTable, todo>>
     ELSE LET packageInfo == CollectPackage(InitializePackageInfo(stagingDir))
              table == (packageInfo.id :> packageInfo) @@ LoadPackageManifests
          IN  /\ repositoryManifest' = LoadRepositoryManifest
              /\ packageTable' = table
              /\ todo' = SetToSortedSeq(DOMAIN table)
              /\ log' = log \o << <<"extract", GetRepositoryManifestArchiveFileName>>,
                                  <<"extract", GetTpmArchiveFileName>> >>
              /\ pc' = "reconcile"
              /\ UNCHANGED exitCode
  /\ UNCHANGED <<listFiles, readStack, texmfParent, mode, packageList, defaultLevel, cwd, staging, repo, run,
                 programStartTime, prev>>

\* Run, --update-repository: the categorizer pass
Categorize ==
  /\ pc = "categorize"
  /\ packageTable' = AutoCategorize(packageTable)
  /\ todo' = SetToSortedSeq(DOMAIN packageTable)
  /\ pc' = "reconcile"
  /\ UNCHANGED <<listFiles, readStack, texmfParent, mode, packageList, defaultLevel, cwd, staging, repo, run,
                 programStartTime, repositoryManifest, exitCode, log, prev>>

\* UpdateRepository, the body of its loop once CreateArchiveFile has
\* returned r for the package p
Reconciled(p, leveled, r, nextPc) ==
  IF r.failed
  THEN /\ FatalError
       /\ repositoryManifest' = leveled
       /\ log' = log \o r.cmds
       /\ UNCHANGED <<packageTable, repo, staging, cwd>>
  ELSE /\ packageTable' = [packageTable EXCEPT ![p.id] = r.packageInfo]
       /\ repositoryManifest' =
            UpdateManifest(leveled, r.packageInfo, r.archiveFileType)
       /\ repo' = r.dir
       /\ staging' = IF r.rebuilt
                     THEN [staging EXCEPT ![p.path].files = r.files]
                     ELSE staging
       /\ log' = log \o r.cmds
       /\ cwd' = CurrentAfterCreateArchiveFile(cwd, p, r.rebuilt)
       /\ pc' = nextPc
       /\ UNCHANGED exitCode

ReconcilePackage(p, leveled, nextPc) ==
  Reconciled(p, leveled,
             CreateArchiveFile(p, repo, leveled, programStartTime), nextPc)

\* PackageCreator::UpdateRepository: one turn of its loop
Reconcile ==
  /\ pc = "reconcile" /\ todo # <<>>
  /\ IF IsToBeIgnored(packageTable[Head(todo)])
        \/ IsPureContainerPackage(packageTable[Head(todo)])
     THEN /\ pc' = IF Tail(todo) = <<>> THEN "zzdb1" ELSE "reconcile"
          /\ UNCHANGED <<packageTable, repositoryManifest, repo, staging,
                         log, exitCode, cwd>>
     ELSE ReconcilePackage(
            packageTable[Head(todo)],
            PutValue(repositoryManifest, Head(todo), "Level",
                     GetPackageLevel(packageTable[Head(todo)])),
            IF Tail(todo) = <<>> THEN "zzdb1" ELSE "reconcile")
  /\ todo' = Tail(todo)
  /\ UNCHANGED <<listFiles, readStack, texmfParent, mode, packageList, defaultLevel, run, programStartTime, prev>>

\* WriteDatabase: obsolete sections, temporary mpm.ini, the repository
\* manifest archive
WriteManifestArchive ==
  /\ pc = "zzdb1"
  /\ LET manifest == IF mode = "update"
                     THEN RemoveObsoleteSections(repositoryManifest, packageTable)
                     ELSE repositoryManifest
         tempIni == ("mpm.ini" :> RepoFile("tmp", manifest, 0)) @@ repo
         a == RunArchiver(tempIni, GetRepositoryManifestArchiveFileName,
                          RepoFile("db1", manifest, 0))
     IN  /\ repositoryManifest' = manifest
         /\ repo' = DeleteFile(a.dir, "mpm.ini")
         /\ log' = log \o a.cmds
  /\ cwd' = SetCurrent(cwd, repository)
  /\ pc' = AfterStep("zzdb1")
  /\ UNCHANGED <<listFiles, readStack, texmfParent, mode, packageList, defaultLevel, staging, run,
                 programStartTime, packageTable, todo, exitCode, prev>>

\* WriteDatabase: temporary package manifest directory, the TPM archive
WriteTpmArchive ==
  /\ pc = "zzdb2"
  /\ LET tpms == WritePackageManifestFiles(packageTable, repositoryManifest)
         tempDir == (texmfPrefix :> RepoFile("tmp", tpms, 0)) @@ repo
         a == RunArchiver(tempDir, GetTpmArchiveFileName, RepoFile("db2", tpms, 0))
     IN  /\ repo' = DeleteFile(a.dir, texmfPrefix)
         /\ log' = log \o a.cmds
  /\ pc' = AfterStep("zzdb2")
  /\ UNCHANGED <<listFiles, readStack, texmfParent, mode, packageList, defaultLevel, cwd, staging, run,
                 programStartTime, packageTable, repositoryManifest, todo,
                 exitCode, prev>>

\* WriteDatabase: temporary package-manifests.ini and its archive
WritePackageManifestsArchive ==
  /\ pc = "zzdb3"
  /\ LET tpms == DumpPackageManifests(packageTable, repositoryManifest)
         tempIni == ("package-manifests.ini" :> RepoFile("tmp", tpms, 0)) @@ repo
         a == RunArchiver(tempIni, GetPackageManifestsArchiveFileName,
                          RepoFile("db3", tpms, 0))
     IN  /\ repo' = DeleteFile(a.dir, "package-manifests.ini")
         /\ log' = log \o a.cmds
  /\ pc' = AfterStep("zzdb3")
  /\ UNCHANGED <<listFiles, readStack, texmfParent, mode, packageList, defaultLevel, cwd, staging, run,
                 programStartTime, packageTable, repositoryManifest, todo,
                 exitCode, prev>>

\* PackageCreator::CreateFileListFile: files.csv, compressed, then deleted
WriteFileList ==
  /\ pc = "filelist"
  /\ LET lines == CreateFileListFile(packageTable)
         filesCsv == ("files.csv" :> RepoFile("csv", lines, 0)) @@ repo
         compressed == ("files.csv.lzma" :> RepoFile("csv", lines, 0)) @@ filesCsv
     IN  /\ repo' = DeleteFile(compressed, "files.csv")
         /\ log' = log
                     \o (IF "files.csv.lzma" \in DOMAIN repo
                         THEN << <<"delete", "files.csv.lzma">> >> ELSE <<>>)
                     \o << <<"compress", "files.csv.lzma">> >>
  /\ pc' = AfterStep("filelist")
  /\ UNCHANGED <<listFiles, readStack, texmfParent, mode, packageList, defaultLevel, cwd, staging, run,
                 programStartTime, packageTable, repositoryManifest, todo,
                 exitCode, prev>>

\* PackageCreator::CleanUp
RunCleanUp ==
  /\ pc = "cleanup"
  /\ LET c == CleanUp(repo)
     IN  /\ repo' = c.dir
         /\ log' = log \o c.cmds
         /\ IF c.failed THEN FatalError
            ELSE pc' = AfterStep("cleanup") /\ UNCHANGED exitCode
  /\ UNCHANGED <<listFiles, readStack, texmfParent, mode, packageList, defaultLevel, cwd, staging, run,
                 programStartTime, packageTable, repositoryManifest, todo,
                 prev>>

\* CreateRepositoryInformationFile, up to the first cfg->Write(path)
WriteRepositoryInformation ==
  /\ pc = "prini1"
  /\ \E tiesFirst \in BOOLEAN :
       LET cfg == RepositoryInformation(packageTable, repositoryManifest,
                                        programStartTime, tiesFirst)
       IN  /\ repo' = ("pr.ini" :> RepoFile("ini", cfg, 0)) @@ repo
           /\ log' = log
                       \o (IF "pr.ini" \in DOMAIN repo
                           THEN << <<"delete", "pr.ini">> >> ELSE <<>>)
                       \o << <<"write", "pr.ini">> >>
  /\ pc' = AfterStep("prini1")
  /\ UNCHANGED <<listFiles, readStack, texmfParent, mode, packageList, defaultLevel, cwd, staging, run,
                 programStartTime, packageTable, repositoryManifest, todo,
                 exitCode, prev>>

\* CreateRepositoryInformationFile, from the directory listing on: the
\* lister gives the entries in an order of its own
FinishRepositoryInformation ==
  /\ pc = "prini2"
  /\ \E names \in {SetToSortedSeq(DOMAIN repo), Reverse(SetToSortedSeq(DOMAIN repo))} :
       LET cfg == [repo["pr.ini"].data EXCEPT
                     !.lstdigest = MD5ToString(ListDigest(names, repo))]
       IN  /\ repo' = [repo EXCEPT !["pr.ini"] = RepoFile("ini", cfg, 0)]
           /\ log' = log \o << <<"list", "">>, <<"write", "pr.ini">> >>
  /\ pc' = AfterStep("prini2")
  /\ exitCode' = 0
  /\ UNCHANGED <<listFiles, readStack, texmfParent, mode, packageList, defaultLevel, cwd, staging, run,
                 programStartTime, packageTable, repositoryManifest, todo, prev>>

\* The operator runs the program again, with the same command line, on
\* the staging directories and the repository as the last run left them
RunAgain ==
  /\ pc = "done" /\ run < MaxRuns
  /\ run' = run + 1
  /\ programStartTime' = StartTimeOf(run + 1)
  /\ pc' = "start"
  /\ packageTable' = <<>>
  /\ repositoryManifest' = EmptyCfg
  /\ todo' = <<>>
  /\ exitCode' = 0 - 1
  /\ log' = <<>>
  /\ prev' = [exitCode |-> exitCode, repo |-> repo, staging |-> staging]
  /\ cwd' = startDirectory
  /\ UNCHANGED <<listFiles, readStack, texmfParent, mode, packageList, defaultLevel, staging, repo>>

Next ==
  \/ CollectUpdate
  \/ CollectCreate
  \/ Categorize
  \/ Reconcile
  \/ WriteManifestArchive
  \/ WriteTpmArchive
  \/ WritePackageManifestsArchive
  \/ WriteFileList
  \/ RunCleanUp
  \/ WriteRepositoryInformation
  \/ FinishRepositoryInformation
  \/ RunAgain

Spec == Init /\ [][Next]_vars

(***************************************************************************)
(* Staging roots with dependencies, umbrellas and files of all kinds       *)
(***************************************************************************)

\* A staging directory
StagingDir(id, requires, ctanPath, files) ==
  [ini |-> ("id" :> id) @@ ("name" :> id) @@ ("ctan_path" :> ctanPath)
             @@ (IF requires = <<>> THEN <<>> ELSE ("requires" :> requires)),
   files |-> files]

\* The file the staging directory of b may hold under Files/
BFiles ==
  {"texmf/fonts/truetype/b.ttf", "texmf/fonts/type1x/b.pfb",
   "texmf/doc/b.pdf", "texmf/docs/b.txt", "texmf/source/b.dtx",
   "texmf/sources/b.c", "texmf/tex/doc/b.sty"}

\* The umbrella packages that may be staged
UmbrellaSets == SUBSET {latexPackages, fontsType1}

\* The staging roots hold the packages a and b (a possibly in more staging
\* directories than one, with other files), which may require each
\* other, themselves or a package that is not there, have a CTAN path of
\* LaTeX macros or of fonts, or none, and an outline font or not; and
\* umbrella packages that may themselves have a CTAN path; b holds one
\* file, in a documentation, source or other directory
InitRoots ==
  /\ mode = "update"
  /\ packageList = <<>>
  /\ defaultLevel = "T"
  /\ \E umbrellas \in UmbrellaSets,
        aRequires \in {<<>>, <<"b">>, <<"b", "b">>, <<"zz">>, <<"a", latexPackages>>},
        bRequires \in {<<>>, <<"a">>},
        aCtan \in {"", "/macros/latex/contrib/a", "/fonts/a"},
        bCtan \in {"/macros/latex/contrib/b", "/fonts/b"},
        bFile \in BFiles,
        uCtan \in {"", "/macros/latex/contrib/u"},
        again \in {{}, {"a2"}, {"0a", "a2"}} :
       staging =
         [u \in umbrellas |-> StagingDir(u, <<>>, uCtan, <<>>)]
         @@ [d \in again |->
               StagingDir("a", <<"b">>, "/fonts/" \o d,
                          ("texmf/tex/" \o d \o ".sty" :> RegFile(4, 7)))]
         @@ ("a" :> StagingDir("a", aRequires, aCtan,
                               ("texmf/fonts/type1/a.pfb" :> RegFile(9, 5))))
         @@ ("b" :> StagingDir("b", bRequires, bCtan, (bFile :> RegFile(8, 6))))
  /\ repo = OldRepository([types |-> {}, digest |-> ZeroMD5], <<>>, FALSE)
  /\ run = 1
  /\ programStartTime = StartTimeOf(1)
  /\ pc = "start"
  /\ packageTable = <<>>
  /\ repositoryManifest = EmptyCfg
  /\ todo = <<>>
  /\ exitCode = 0 - 1
  /\ log = <<>>
  /\ cwd = startDirectory
  /\ listFiles = <<>>
  /\ readStack = <<>>
  /\ texmfParent = <<>>
  /\ prev = [exitCode |-> 0 - 1, repo |-> repo, staging |-> staging]

\* Run up to the call of UpdateRepository
NextRoots ==
  \/ CollectUpdate
  \/ Categorize

SpecRoots == InitRoots /\ [][NextRoots]_vars

(***************************************************************************)
(* A repository of many packages                                           *)
(***************************************************************************)

\* The most packages the staging roots hold
MaxPackages == 22

PackageId(i) == "p" \o to_string(i)

ManyFiles(id) == ("texmf/tex/" \o id \o ".sty" :> RegFile(10, 1))

ManyDigest(id) == GetTdsDigest(FileDigestTable(ManyFiles(id)))

\* The time an earlier run packaged the i-th package at: the times of the
\* packages repeat with period m
ManyTime(i, k, m) == OldManifestTime + ((i * k) % m) * 3600

ManyArchive(id, time) ==
  RepoFile("archive",
           (TpmPath(id) :>
              WritePackageManifestFile(
                [NewPackageInfo EXCEPT
                   !.id = id, !.digest = ManyDigest(id),
                   !.runFiles = <<"texmf/tex/" \o id \o ".sty">>,
                   !.sizeRunFiles = 10],
                time))
             @@ ManyFiles(id),
           time)

ManySection(id, time) ==
  ("Level" :> "T") @@ ("MD5" :> MD5ToString(ManyDigest(id)))
    @@ ("TimePackaged" :> to_string(time))
    @@ ("CabSize" :> to_string(FileSize(ManyArchive(id, time))))
    @@ ("CabMD5" :> MD5ToString(MD5Of(ArchiveBytes(ManyArchive(id, time).data))))
    @@ ("Type" :> "TarLzma")

\* The repository an earlier run left for the packages numbered in known,
\* with the manifest and its archive
ManyRepository(known, k, m) ==
  [n \in {PackageId(i) \o ".tar.lzma" : i \in known} |->
     ManyArchive(SubSeq(n, 1, Len(n) - Len(".tar.lzma")),
                 ManyTime(ToTimeT(SubSeq(n, 2, Len(n) - Len(".tar.lzma"))), k, m))]
  @@ (GetRepositoryManifestArchiveFileName :>
        RepoFile("db1",
                 [id \in {PackageId(i) : i \in known} |->
                    ManySection(id, ManyTime(ToTimeT(SubSeq(id, 2, Len(id))), k, m))],
                 0))

\* --update-repository on staging roots of n packages, all but at most one
\* of them (new) already in the repository and unchanged since
InitMany ==
  /\ mode = "update"
  /\ packageList = <<>>
  /\ defaultLevel = "T"
  /\ \E n \in {MaxPackages - 3, MaxPackages}, k \in {1, 3}, m \in {1, 2, 4},
        new \in {0, 5} :
       /\ staging =
            [id \in {PackageId(i) : i \in 1..n} |->
               [ini |-> ("id" :> id) @@ ("name" :> id)
                          @@ ("MD5" :> MD5ToString(ManyDigest(id))),
                files |-> ManyFiles(id)]]
       /\ repo = ManyRepository((1..n) \ {new}, k, m)
  /\ run = 1
  /\ programStartTime = StartTimeOf(1)
  /\ pc = "start"
  /\ packageTable = <<>>
  /\ repositoryManifest = EmptyCfg
  /\ todo = <<>>
  /\ exitCode = 0 - 1
  /\ log = <<>>
  /\ cwd = startDirectory
  /\ listFiles = <<>>
  /\ readStack = <<>>
  /\ texmfParent = <<>>
  /\ prev = [exitCode |-> 0 - 1, repo |-> repo, staging |-> staging]

\* One run of --update-repository
NextMany ==
  \/ CollectUpdate
  \/ Categorize
  \/ Reconcile
  \/ WriteManifestArchive
  \/ WriteTpmArchive
  \/ WritePackageManifestsArchive
  \/ WriteFileList
  \/ RunCleanUp
  \/ WriteRepositoryInformation
  \/ FinishRepositoryInformation

SpecMany == InitMany /\ [][NextMany]_vars

(***************************************************************************)
(* Runs in which an external command fails or the process is killed        *)
(***************************************************************************)

\* What the shell leaves where the output of a command was redirected to
\* when the command fails or is killed: the file it created, with part of
\* the output or none
PartialFile == RepoFile("partial", <<>>, 0)

\* ExecuteSystemCommand hands the whole command line to the system shell:
\* the exit code it sees is the one of the last command of a pipeline
PipelineExitCode(exitCodes) == exitCodes[Len(exitCodes)]

\* --update-repository on the staging directories of foo and bar, package.ini
\* of both carrying the digest of the files; the repository of an earlier
\* run, with or without an archive and a section for foo
InitFaults ==
  /\ mode = "update"
  /\ packageList = <<>>
  /\ defaultLevel = "T"
  /\ \E withBar \in BOOLEAN :
       /\ staging =
            ("bar" :> [ini |-> ("id" :> "bar") @@ ("name" :> "Bar")
                                @@ ("MD5" :> MD5ToString(BarDigest)),
                       files |-> BarFiles])
            @@ ("foo" :> [ini |-> ("id" :> "foo") @@ ("name" :> "Foo")
                                    @@ ("MD5" :> MD5ToString(
                                          GetTdsDigest(FileDigestTable(
                                            ("texmf/tex/a.sty" :> RegFile(10, 1)))))),
                          files |-> ("texmf/tex/a.sty" :> RegFile(10, 1))])
       /\ \E a \in {x \in FooArchiveSettings(IniDigest(staging["foo"].ini)) :
                       x.types \in {{}, {"TarLzma"}, {"TarBzip2"}}},
             sec \in {x \in FooSections(IniDigest(staging["foo"].ini)) :
                        x = <<>> \/ "TimePackaged" \in DOMAIN x["foo"]} :
            repo = OldRepository(a, sec, withBar)
  /\ run = 1
  /\ programStartTime = StartTimeOf(1)
  /\ pc = "start"
  /\ packageTable = <<>>
  /\ repositoryManifest = EmptyCfg
  /\ todo = <<>>
  /\ exitCode = 0 - 1
  /\ log = <<>>
  /\ cwd = startDirectory
  /\ listFiles = <<>>
  /\ readStack = <<>>
  /\ texmfParent = <<>>
  /\ prev = [exitCode |-> 0 - 1, repo |-> repo, staging |-> staging]

\* LoadRepositoryManifest: the command of ExtractFile fails
LoadRepositoryManifestFails ==
  /\ pc = "start" /\ mode = "update"
  /\ CollectPackagesFrom(StagingDirs, <<>>) # <<>>
  /\ GetRepositoryManifestArchiveFileName \in DOMAIN repo
  /\ packageTable' = CollectPackagesFrom(StagingDirs, <<>>)
  /\ log' = log \o DuplicateWarnings(StagingDirs, {})
                 \o << <<"extract", GetRepositoryManifestArchiveFileName>>,
                       <<"fault", GetRepositoryManifestArchiveFileName>> >>
  /\ FatalError
  /\ UNCHANGED <<listFiles, readStack, texmfParent, mode, packageList, defaultLevel, cwd, staging, repo, run,
                 programStartTime, repositoryManifest, todo, prev>>

\* CreateArchiveFile when one of its commands fails: the ExtractFile of the
\* package manifest file, the tar that creates the .tar file, the tar that
\* appends the tree to it, or the compressor.  r is what CreateArchiveFile
\* would have returned.
CreateArchiveFileFailed(p, leveled, r, command) ==
  /\ ~r.failed
  /\ IF command = "extract" THEN r.cmds[1][1] = "extract" ELSE r.rebuilt
  /\ staging' = IF command = "extract" THEN staging
                ELSE [staging EXCEPT ![p.path].files = r.files]
  /\ repo' =
       CASE command = "extract" -> repo
         [] command \in {"tar", "append"} ->
              (AppendExtension(p.id, ".tar") :> PartialFile) @@ repo
         [] command = "compress" ->
              (AppendExtension(p.id, GetFileNameExtension(defaultArchiveFileType))
                 :> PartialFile)
              @@ (AppendExtension(p.id, ".tar")
                    :> RepoFile("tar", TarTree(r.files), 0))
              @@ repo
  /\ cwd' = IF command = "extract" THEN cwd
            ELSE SetCurrent(cwd, stagingRoot \o "/" \o p.path)
  /\ log' = log
             \o (IF r.cmds[1][1] = "extract" THEN << r.cmds[1] >> ELSE <<>>)
             \o (IF command = "extract" THEN <<>>
                 ELSE << <<"tar", AppendExtension(p.id, ".tar")>> >>)
             \o << <<"fault", command>> >>
  /\ repositoryManifest' = leveled
  /\ FatalError
  /\ UNCHANGED packageTable

CreateArchiveFileFails ==
  /\ pc = "reconcile" /\ todo # <<>>
  /\ ~IsToBeIgnored(packageTable[Head(todo)])
  /\ ~IsPureContainerPackage(packageTable[Head(todo)])
  /\ \E command \in {"extract", "tar", "append", "compress"} :
       CreateArchiveFileFailed(
         packageTable[Head(todo)],
         PutValue(repositoryManifest, Head(todo), "Level",
                  GetPackageLevel(packageTable[Head(todo)])),
         CreateArchiveFile(
           packageTable[Head(todo)], repo,
           PutValue(repositoryManifest, Head(todo), "Level",
                    GetPackageLevel(packageTable[Head(todo)])),
           programStartTime),
         command)
  /\ todo' = Tail(todo)
  /\ UNCHANGED <<listFiles, readStack, texmfParent, mode, packageList, defaultLevel, run, programStartTime, prev>>

\* The database archive a step of WriteDatabase builds
DatabaseFileName(step) ==
  CASE step = "zzdb1" -> GetRepositoryManifestArchiveFileName
    [] step = "zzdb2" -> GetTpmArchiveFileName
    [] step = "zzdb3" -> GetPackageManifestsArchiveFileName

DatabaseKind(step) ==
  CASE step = "zzdb1" -> "db1" [] step = "zzdb2" -> "db2" [] step = "zzdb3" -> "db3"

\* RunArchiver, "tar -cf - <filter> | xz ... > <archiveFile>": the exit codes
\* of tar and of the compressor, 1 standing for any failure
PipelineOutcomes == {<<0, 1>>, <<1, 1>>, <<1, 0>>}

\* WriteDatabase when the pipeline of RunArchiver does not run well.  If its
\* exit code is not 0 the run ends, the temporary file is deleted on the way
\* out and the archive file is what the shell left.  If tar fails and the
\* compressor does not, the exit code is 0 and the archive file holds the
\* compressed output of a tar that wrote none.
RunArchiverFails ==
  /\ pc \in {"zzdb1", "zzdb2", "zzdb3"}
  /\ \E exitCodes \in PipelineOutcomes :
       /\ log' = log
                  \o (IF DatabaseFileName(pc) \in DOMAIN repo
                      THEN << <<"delete", DatabaseFileName(pc)>> >> ELSE <<>>)
                  \o << <<"fault", IF exitCodes[1] # 0 THEN "tar" ELSE "compress">> >>
                  \o (IF PipelineExitCode(exitCodes) # 0 THEN <<>>
                      ELSE << <<"archive", DatabaseFileName(pc)>> >>)
       /\ IF PipelineExitCode(exitCodes) # 0
          THEN /\ repo' = (DatabaseFileName(pc) :> PartialFile) @@ repo
               /\ FatalError
          ELSE /\ repo' = (DatabaseFileName(pc) :> RepoFile(DatabaseKind(pc), <<>>, 0))
                            @@ repo
               /\ pc' = AfterStep(pc)
               /\ UNCHANGED exitCode
  /\ repositoryManifest' =
       IF pc = "zzdb1" /\ mode = "update"
       THEN RemoveObsoleteSections(repositoryManifest, packageTable)
       ELSE repositoryManifest
  /\ cwd' = SetCurrent(cwd, repository)
  /\ UNCHANGED <<listFiles, readStack, texmfParent, mode, packageList, defaultLevel, staging, run,
                 programStartTime, packageTable, todo, prev>>

\* CreateFileListFile when the compressor fails: files.csv stays
CreateFileListFileFails ==
  /\ pc = "filelist"
  /\ repo' = ("files.csv.lzma" :> PartialFile)
               @@ ("files.csv" :> RepoFile("csv", CreateFileListFile(packageTable), 0))
               @@ repo
  /\ log' = log
             \o (IF "files.csv.lzma" \in DOMAIN repo
                 THEN << <<"delete", "files.csv.lzma">> >> ELSE <<>>)
             \o << <<"fault", "compress">> >>
  /\ FatalError
  /\ UNCHANGED <<listFiles, readStack, texmfParent, mode, packageList, defaultLevel, cwd, staging, run,
                 programStartTime, packageTable, repositoryManifest, todo, prev>>

\* The process is killed between two steps of the run: main does not return
Interrupt ==
  /\ pc \notin {"start", "done"}
  /\ pc' = "done"
  /\ UNCHANGED <<listFiles, readStack, texmfParent, mode, packageList, defaultLevel, cwd, staging, repo, run,
                 programStartTime, packageTable, repositoryManifest, todo,
                 exitCode, log, prev>>

NextFaults ==
  \/ CollectUpdate
  \/ Categorize
  \/ Reconcile
  \/ WriteManifestArchive
  \/ WriteTpmArchive
  \/ WritePackageManifestsArchive
  \/ WriteFileList
  \/ RunCleanUp
  \/ WriteRepositoryInformation
  \/ FinishRepositoryInformation
  \/ RunAgain
  \/ LoadRepositoryManifestFails
  \/ CreateArchiveFileFails
  \/ RunArchiverFails
  \/ CreateFileListFileFails
  \/ Interrupt

SpecFaults == InitFaults /\ [][NextFaults]_vars

(***************************************************************************)
(* Runs over packages with and without version and target system           *)
(***************************************************************************)

\* The optional values of package.ini that go into the manifest, and the
\* manifest keys an earlier run may have left for them
OptionalIniValues ==
  ("version" :> "1.2") @@ ("targetsystem" :> "windows")
    @@ ("min_target_system_version" :> "2.9.7000")

OldOptionalValues ==
  ("Version" :> "1.1") @@ ("TargetSystem" :> "linux")
    @@ ("MinTargetSystemVersion" :> "2.9.6000")

\* f on the keys in keys only
Restrict(f, keys) == [k \in keys |-> f[k]]

InitFields ==
  /\ mode \in {"update", "create"}
  /\ \E l \in LevelSettings :
       /\ packageList = l.list
       /\ defaultLevel = l.default
  /\ \E given \in SUBSET DOMAIN OptionalIniValues,
        left \in {{}, DOMAIN OldOptionalValues},
        withBar \in BOOLEAN,
        barFiles \in {BarFiles, (TpmPath("bar") :> BarTpm), <<>>} :
       /\ staging =
            ("bar" :> [ini |-> ("id" :> "bar") @@ ("name" :> "Bar")
                                @@ ("MD5" :> MD5ToString(BarDigest)),
                       files |-> barFiles])
            @@ ("foo" :> [ini |-> ("id" :> "foo") @@ ("name" :> "Foo")
                                    @@ ("MD5" :> MD5ToString(
                                          GetTdsDigest(FileDigestTable(
                                            ("texmf/tex/a.sty" :> RegFile(10, 1))))))
                                    @@ Restrict(OptionalIniValues, given),
                          files |-> ("texmf/tex/a.sty" :> RegFile(10, 1))])
       /\ \E a \in {x \in FooArchiveSettings(IniDigest(staging["foo"].ini)) :
                       x.types \in {{}, {"TarLzma"}}},
             sec \in {x \in FooSections(IniDigest(staging["foo"].ini)) :
                        x # <<>>} :
            repo = OldRepository(
                     a,
                     ("foo" :> (Restrict(OldOptionalValues, left) @@ sec["foo"])),
                     withBar)
  /\ run = 1
  /\ programStartTime = StartTimeOf(1)
  /\ pc = "start"
  /\ packageTable = <<>>
  /\ repositoryManifest = EmptyCfg
  /\ todo = <<>>
  /\ exitCode = 0 - 1
  /\ log = <<>>
  /\ cwd = startDirectory
  /\ listFiles = <<>>
  /\ readStack = <<>>
  /\ texmfParent = <<>>
  /\ prev = [exitCode |-> 0 - 1, repo |-> repo, staging |-> staging]

NextFields ==
  \/ CollectUpdate
  \/ CollectCreate
  \/ Categorize
  \/ Reconcile
  \/ WriteManifestArchive
  \/ WriteTpmArchive
  \/ WritePackageManifestsArchive
  \/ WriteFileList
  \/ RunCleanUp
  \/ WriteRepositoryInformation
  \/ FinishRepositoryInformation

SpecFields == InitFields /\ [][NextFields]_vars

(***************************************************************************)
(* Repositories that hold files under other names than the program gives   *)
(***************************************************************************)

\* Names an earlier use of the repository directory may have left there
StrayNames == {"foo.cab.tar.bz2", "foo.cab.tar.lzma", "foo.tar.bz2.lzma"}

\* An update run on a repository with some of these files next to the
\* archives of foo
InitClean ==
  /\ mode = "update"
  /\ \E l \in LevelSettings :
       /\ packageList = l.list
       /\ defaultLevel = l.default
  /\ \E md5 \in Md5Keys(("texmf/tex/a.sty" :> RegFile(10, 1))) :
       /\ staging =
            ("bar" :> [ini |-> ("id" :> "bar") @@ ("name" :> "Bar")
                                @@ ("MD5" :> MD5ToString(BarDigest)),
                       files |-> BarFiles])
            @@ ("foo" :> [ini |-> ("id" :> "foo") @@ ("name" :> "Foo") @@ md5,
                          files |-> ("texmf/tex/a.sty" :> RegFile(10, 1))])
       /\ \E a \in FooArchiveSettings(IniDigest(md5)),
             sec \in FooSections(IniDigest(md5)),
             strays \in SUBSET StrayNames :
            repo = [n \in strays |-> PartialFile] @@ OldRepository(a, sec, FALSE)
  /\ run = 1
  /\ programStartTime = StartTimeOf(1)
  /\ pc = "start"
  /\ packageTable = <<>>
  /\ repositoryManifest = EmptyCfg
  /\ todo = <<>>
  /\ exitCode = 0 - 1
  /\ log = <<>>
  /\ cwd = startDirectory
  /\ listFiles = <<>>
  /\ readStack = <<>>
  /\ texmfParent = <<>>
  /\ prev = [exitCode |-> 0 - 1, repo |-> repo, staging |-> staging]

NextClean ==
  \/ CollectUpdate
  \/ Categorize
  \/ Reconcile
  \/ WriteManifestArchive
  \/ WriteTpmArchive
  \/ WritePackageManifestsArchive
  \/ WriteFileList
  \/ RunCleanUp
  \/ WriteRepositoryInformation
  \/ FinishRepositoryInformation

SpecClean == InitClean /\ [][NextClean]_vars

(***************************************************************************)
(* --create-package on repositories in which the package manifests, the    *)
(* manifest and the archive of another package do or do not agree          *)
(***************************************************************************)

\* The archive of bar the repository may hold: the one that goes with the
\* package manifest file of bar, one built from other files, or none
BarArchives ==
  { <<>>,
    ("bar.tar.lzma" :> BarArchive),
    ("bar.tar.lzma" :>
       RepoFile("archive",
                (TpmPath("bar") :> OldTpm("bar", OtherDigest, OldEmbeddedTime))
                  @@ BarFiles,
                OldEmbeddedTime)) }

\* The section of bar in the manifest: as the run that wrote the package
\* manifest file left it, with another MD5, without TimePackaged, or none
BarSections ==
  { BarSection,
    ("bar" :> [BarSection["bar"] EXCEPT !["MD5"] = MD5ToString(OtherDigest)]),
    ("bar" :> Restrict(BarSection["bar"], DOMAIN BarSection["bar"] \ {"TimePackaged"})),
    <<>> }

\* A --create-package run for foo on a repository that knows bar
InitRefresh ==
  /\ mode = "create"
  /\ packageList = <<>>
  /\ defaultLevel = "T"
  /\ staging =
       ("foo" :> [ini |-> ("id" :> "foo") @@ ("name" :> "Foo")
                          @@ ("MD5" :> MD5ToString(
                                GetTdsDigest(FileDigestTable(
                                  ("texmf/tex/a.sty" :> RegFile(10, 1)))))),
                  files |-> ("texmf/tex/a.sty" :> RegFile(10, 1))])
  /\ \E a \in FooArchiveSettings(IniDigest(staging["foo"].ini)),
        sec \in FooSections(IniDigest(staging["foo"].ini)),
        barArchive \in BarArchives, barSection \in BarSections :
       repo = barArchive
                @@ (GetRepositoryManifestArchiveFileName
                      :> RepoFile("db1", barSection @@ sec, 0))
                @@ DeleteFile(OldRepository(a, sec, TRUE), "bar.tar.lzma")
  /\ run = 1
  /\ programStartTime = StartTimeOf(1)
  /\ pc = "start"
  /\ packageTable = <<>>
  /\ repositoryManifest = EmptyCfg
  /\ todo = <<>>
  /\ exitCode = 0 - 1
  /\ log = <<>>
  /\ cwd = startDirectory
  /\ listFiles = <<>>
  /\ readStack = <<>>
  /\ texmfParent = <<>>
  /\ prev = [exitCode |-> 0 - 1, repo |-> repo, staging |-> staging]

NextRefresh ==
  \/ CollectCreate
  \/ Reconcile
  \/ WriteManifestArchive
  \/ WriteTpmArchive
  \/ WritePackageManifestsArchive
  \/ WriteFileList
  \/ RunCleanUp
  \/ WriteRepositoryInformation
  \/ FinishRepositoryInformation

SpecRefresh == InitRefresh /\ [][NextRefresh]_vars

(***************************************************************************)
(* --build-tds (BuildTDS, CopyPackage)                                     *)
(***************************************************************************)

\* <texmfParent>/<texmfPrefix>/MIKTEX_PATH_MPM_INI
MpmIniPath == texmfPrefix \o "/miktex/config/mpm.ini"

\* CopyPackage passes nullptr where MD5CopyFiles takes a const string&: the
\* std::string made of it is undefined; the constructor throws
\* std::logic_error, the process is killed, or the string is empty
NullStringOutcomes == {"throws", "killed", "empty"}

\* MD5CopyFiles over the run, doc and source files of the package: the
\* files as they lie under Files/ of the staging directory
CopiedFiles(packageinfo) ==
  [f \in (Range(packageinfo.runFiles) \cup Range(packageinfo.docFiles)
            \cup Range(packageinfo.sourceFiles))
          \cap DOMAIN staging[packageinfo.path].files
     |-> staging[packageinfo.path].files[f]]

\* CopyPackage: the package manifest file is written, the files are copied
\* and digested, and the TDS digest is compared with the one of the package
CopyPackage(packageinfo, destDir, now) ==
  [destDir |-> CopiedFiles(packageinfo)
                 @@ (TpmPath(packageinfo.id)
                       :> WritePackageManifestFile(packageinfo, now))
                 @@ destDir,
   failed |-> GetTdsDigest(FileDigestTable(CopiedFiles(packageinfo)))
                # packageinfo.digest]

\* BuildTDS, "update manifest"
BuildTdsManifest(manifest, p, level, now) ==
  LET m1 == PutValue(manifest, p.id, "Level", level)
      m2 == PutValue(m1, p.id, "MD5", MD5ToString(p.digest))
      m3 == PutValue(m2, p.id, "TimePackaged", to_string(now))
      m4 == IF p.version = "" THEN m3 ELSE PutValue(m3, p.id, "Version", p.version)
      m5 == IF p.targetSystem = "" THEN m4
            ELSE PutValue(m4, p.id, "TargetSystem", p.targetSystem)
  IN  IF p.minTargetSystemVersion = "" THEN m5
      ELSE PutValue(m5, p.id, "MinTargetSystemVersion", p.minTargetSystemVersion)

\* Run, --build-tds: collect the packages
CollectTds ==
  /\ pc = "start" /\ mode = "tds"
  /\ IF CollectPackagesFrom(StagingDirs, <<>>) = <<>>
     THEN /\ FatalError
          /\ UNCHANGED <<packageTable, todo>>
     ELSE /\ packageTable' = CollectPackagesFrom(StagingDirs, <<>>)
          /\ todo' = SetToSortedSeq(DOMAIN packageTable')
          /\ pc' = "buildtds"
          /\ UNCHANGED exitCode
  /\ UNCHANGED <<listFiles, readStack, texmfParent, mode, packageList,
                 defaultLevel, cwd, staging, repo, run, programStartTime,
                 repositoryManifest, log, prev>>

\* BuildTDS: one turn of its loop, c what CopyPackage does when it gets as
\* far as copying
BuildTdsCopied(p, c, outcome) ==
  IF outcome = "throws"
  THEN /\ FatalError
       /\ texmfParent' = (TpmPath(p.id)
                            :> WritePackageManifestFile(p, programStartTime))
                           @@ texmfParent
       /\ UNCHANGED repositoryManifest
  ELSE IF outcome = "killed"
  THEN /\ pc' = "done"
       /\ texmfParent' = (TpmPath(p.id)
                            :> WritePackageManifestFile(p, programStartTime))
                           @@ texmfParent
       /\ UNCHANGED <<repositoryManifest, exitCode>>
  ELSE IF c.failed
  THEN /\ FatalError
       /\ texmfParent' = c.destDir
       /\ UNCHANGED repositoryManifest
  ELSE /\ texmfParent' = c.destDir
       /\ repositoryManifest' =
            BuildTdsManifest(repositoryManifest, p, GetPackageLevel(p),
                             programStartTime)
       /\ pc' = IF Tail(todo) = <<>> THEN "mpmini" ELSE "buildtds"
       /\ UNCHANGED exitCode

BuildTDS ==
  /\ pc = "buildtds" /\ todo # <<>>
  /\ IF IsToBeIgnored(packageTable[Head(todo)])
     THEN /\ pc' = IF Tail(todo) = <<>> THEN "mpmini" ELSE "buildtds"
          /\ UNCHANGED <<texmfParent, repositoryManifest, exitCode>>
     ELSE \E outcome \in NullStringOutcomes :
            BuildTdsCopied(packageTable[Head(todo)],
                           CopyPackage(packageTable[Head(todo)], texmfParent,
                                       programStartTime),
                           outcome)
  /\ todo' = Tail(todo)
  /\ UNCHANGED <<listFiles, readStack, mode, packageList, defaultLevel, cwd,
                 staging, repo, run, programStartTime, packageTable, log, prev>>

\* Run, --build-tds: "write mpm.ini"
WriteMpmIni ==
  /\ pc = "mpmini"
  /\ texmfParent' = (MpmIniPath :> [size |-> GetSize(repositoryManifest),
                                    data |-> repositoryManifest])
                      @@ texmfParent
  /\ pc' = "done"
  /\ exitCode' = 0
  /\ UNCHANGED <<listFiles, readStack, mode, packageList, defaultLevel, cwd,
                 staging, repo, run, programStartTime, packageTable,
                 repositoryManifest, todo, log, prev>>

\* Staging roots with foo and bar, each with the digest of its files in
\* package.ini, a stale digest or (foo) none
InitTds ==
  /\ mode = "tds"
  /\ \E l \in LevelSettings :
       /\ packageList = l.list
       /\ defaultLevel = l.default
  /\ \E fooFiles \in FooFileSets, withBar \in BOOLEAN,
        barDigest \in {BarDigest, OtherDigest} :
       \E md5 \in Md5Keys(fooFiles) :
         staging =
           ("bar" :> [ini |-> ("id" :> "bar") @@ ("name" :> "Bar")
                               @@ ("version" :> "3")
                               @@ ("MD5" :> MD5ToString(barDigest)),
                      files |-> IF withBar
                                THEN (TpmPath("bar") :> BarTpm) @@ BarFiles
                                ELSE BarFiles])
           @@ ("foo" :> [ini |-> ("id" :> "foo") @@ ("name" :> "Foo")
                                   @@ ("requires" :> <<"bar">>) @@ md5,
                         files |-> fooFiles])
  /\ repo = <<>>
  /\ run = 1
  /\ programStartTime = StartTimeOf(1)
  /\ pc = "start"
  /\ packageTable = <<>>
  /\ repositoryManifest = EmptyCfg
  /\ todo = <<>>
  /\ exitCode = 0 - 1
  /\ log = <<>>
  /\ cwd = startDirectory
  /\ listFiles = <<>>
  /\ readStack = <<>>
  /\ texmfParent = <<>>
  /\ prev = [exitCode |-> 0 - 1, repo |-> repo, staging |-> staging]

NextTds ==
  \/ CollectTds
  \/ BuildTDS
  \/ WriteMpmIni

SpecTds == InitTds /\ [][NextTds]_vars

(***************************************************************************)
(* The package list (ReadList)                                             *)
(***************************************************************************)

\* How many calls of ReadList the process can have under way before its
\* stack or its file handles are used up
MaxDepth == 4

RECURSIVE SkipBlanks(_, _)
\* while (*lpsz != 0 && (*lpsz == ' ' || *lpsz == '\t')) ++lpsz
SkipBlanks(s, i) ==
  IF i > Len(s) THEN i
  ELSE IF Char(s, i) = " " \/ Char(s, i) = "\t" THEN SkipBlanks(s, i + 1)
  ELSE i

RECURSIVE TokenEnd(_, _)
\* Tokenizer: the index behind the token that starts at i
TokenEnd(s, i) ==
  IF i > Len(s) THEN i
  ELSE IF Char(s, i) = ";" THEN i
  ELSE TokenEnd(s, i + 1)

\* Tokenizer tok(lpsz, ";"): the tokens of s from i on
RECURSIVE Tokens(_, _)
Tokens(s, i) ==
  IF i > Len(s) THEN <<>>
  ELSE IF Char(s, i) = ";" THEN Tokens(s, i + 1)
  ELSE <<SubSeq(s, i, TokenEnd(s, i) - 1)>> \o Tokens(s, TokenEnd(s, i))

\* ReadList, the body of its loop for one line: what the line is (skipped,
\* an include, a package added, a duplicate, or invalid) and what it names
ReadListLine(line, list) ==
  IF line = "" THEN [kind |-> "skip"]
  ELSE IF SkipBlanks(line, 2) > Len(line) THEN [kind |-> "skip"]
  ELSE IF Char(line, 1) = "@"
  THEN [kind |-> "include",
        path |-> SubSeq(line, SkipBlanks(line, 2), Len(line))]
  ELSE IF Char(line, 1) \notin {"S", "M", "L", "T", "-"} THEN [kind |-> "skip"]
  ELSE IF Tokens(line, SkipBlanks(line, 2))[1] \in DOMAIN list
  THEN [kind |-> "warn", id |-> Tokens(line, SkipBlanks(line, 2))[1]]
  ELSE IF Len(Tokens(line, SkipBlanks(line, 2))) = 1
  THEN [kind |-> "add", id |-> Tokens(line, SkipBlanks(line, 2))[1],
        level |-> Char(line, 1), archiveFileType |-> defaultArchiveFileType]
  ELSE IF Tokens(line, SkipBlanks(line, 2))[2] \in {"MSCab", "TarBzip2", "TarLzma"}
  THEN [kind |-> "add", id |-> Tokens(line, SkipBlanks(line, 2))[1],
        level |-> Char(line, 1),
        archiveFileType |-> Tokens(line, SkipBlanks(line, 2))[2]]
  ELSE [kind |-> "fatal"]

\* The package list files: main is the one --package-list names
MainLists ==
  { <<"S foo", "M foo;TarBzip2", "@inc", "- bar">>,
    <<" S foo", "T  bar;MSCab", "", "X baz", "S", "L foo">>,
    <<"S foo", "@ main">>,
    <<"@inc", "L foo", "T\tbar">>,
    <<"- foo;Zip", "S bar">>,
    <<"M bar", "@none">> }

IncLists ==
  { <<"- foo;TarLzma", "M bar">>,
    <<"T foo", "@main">>,
    <<"@inc2", "S baz">> }

InitList ==
  /\ mode = "update"
  /\ packageList = <<>>
  /\ defaultLevel \in {"T", "S"}
  /\ \E main \in MainLists, inc \in IncLists :
       listFiles = ("main" :> main) @@ ("inc" :> inc)
                     @@ ("inc2" :> <<"L foo", "- baz">>)
  /\ readStack = <<>>
  /\ staging = <<>>
  /\ repo = <<>>
  /\ run = 1
  /\ programStartTime = StartTimeOf(1)
  /\ pc = "options"
  /\ packageTable = <<>>
  /\ repositoryManifest = EmptyCfg
  /\ todo = <<>>
  /\ exitCode = 0 - 1
  /\ log = <<>>
  /\ cwd = startDirectory
  /\ texmfParent = <<>>
  /\ prev = [exitCode |-> 0 - 1, repo |-> repo, staging |-> staging]

\* ReadList is called: the file is opened, or cannot be
EnterReadList(path) ==
  IF path \notin DOMAIN listFiles
  THEN /\ FatalError
       /\ UNCHANGED readStack
  ELSE IF Len(readStack) >= MaxDepth
  THEN /\ pc' = "done"
       /\ exitCode' \in {exitCode, 1}
       /\ UNCHANGED readStack
  ELSE /\ readStack' = Append(readStack, [path |-> path, line |-> 1])
       /\ pc' = "readlist"
       /\ UNCHANGED exitCode

\* The line the innermost call of ReadList is at goes to the next one
NextLine ==
  [readStack EXCEPT ![Len(readStack)].line = @ + 1]

\* Run, case OPT_PACKAGE_LIST: ReadList(PathName(optArg), packageList)
ReadPackageList ==
  /\ pc = "options"
  /\ EnterReadList("main")
  /\ UNCHANGED <<listFiles, texmfParent, mode, packageList, defaultLevel,
                 cwd, staging, repo, run, programStartTime, packageTable,
                 repositoryManifest, todo, log, prev>>

\* ReadList: std::getline gives a line, and the line is dealt with
ReadListStep(r) ==
  IF r.kind = "include"
  THEN /\ IF r.path \in DOMAIN listFiles /\ Len(readStack) < MaxDepth
          THEN /\ readStack' = Append(NextLine, [path |-> r.path, line |-> 1])
               /\ UNCHANGED <<pc, exitCode>>
          ELSE EnterReadList(r.path)
       /\ UNCHANGED <<packageList, log>>
  ELSE IF r.kind = "add"
  THEN /\ packageList' =
            (r.id :> [level |-> r.level, archiveFileType |-> r.archiveFileType])
              @@ packageList
       /\ readStack' = NextLine
       /\ UNCHANGED <<pc, exitCode, log>>
  ELSE IF r.kind = "warn"
  THEN /\ log' = Append(log, <<"warning", r.id>>)
       /\ readStack' = NextLine
       /\ UNCHANGED <<pc, exitCode, packageList>>
  ELSE IF r.kind = "fatal"
  THEN /\ FatalError
       /\ UNCHANGED <<readStack, packageList, log>>
  ELSE /\ readStack' = NextLine
       /\ UNCHANGED <<pc, exitCode, packageList, log>>

ReadListNext ==
  /\ pc = "readlist"
  /\ readStack[Len(readStack)].line
       <= Len(listFiles[readStack[Len(readStack)].path])
  /\ ReadListStep(
       ReadListLine(listFiles[readStack[Len(readStack)].path]
                             [readStack[Len(readStack)].line],
                    packageList))
  /\ UNCHANGED <<listFiles, texmfParent, mode, defaultLevel, cwd, staging,
                 repo, run, programStartTime, packageTable,
                 repositoryManifest, todo, prev>>

\* ReadList: std::getline fails at the end of the file, reader.close(),
\* and the call returns
ReadListReturn ==
  /\ pc = "readlist"
  /\ readStack[Len(readStack)].line
       > Len(listFiles[readStack[Len(readStack)].path])
  /\ readStack' = SubSeq(readStack, 1, Len(readStack) - 1)
  /\ pc' = IF Len(readStack) = 1 THEN "listed" ELSE "readlist"
  /\ UNCHANGED <<listFiles, texmfParent, mode, packageList, defaultLevel,
                 cwd, staging, repo, run, programStartTime, packageTable,
                 repositoryManifest, todo, exitCode, log, prev>>

NextList ==
  \/ ReadPackageList
  \/ ReadListNext
  \/ ReadListReturn

SpecList == InitList /\ [][NextList]_vars

(***************************************************************************)
(* Properties                                                              *)
(***************************************************************************)

\* The commands of this run that the step being taken adds to the log
NewCommands == {log'[i] : i \in (Len(log) + 1)..Len(log')}

\* The names a package archive of id may have
ArchiveNamesOf(id) ==
  {id \o ".cab", id \o ".tar.bz2", id \o ".tar.lzma"}

\* The repository manifest as this run found it in the repository
ManifestFound == prev.repo[GetRepositoryManifestArchiveFileName].data

\* The loop of UpdateRepository is at a package that is neither ignored nor
\* a pure container, an archive of its id is in the repository, and the
\* manifest records its digest as MD5 together with a TimePackaged
ReuseCase ==
  /\ pc = "reconcile" /\ todo # <<>>
  /\ ~IsToBeIgnored(packageTable[Head(todo)])
  /\ ~IsPureContainerPackage(packageTable[Head(todo)])
  /\ ArchiveNamesOf(Head(todo)) \cap DOMAIN repo # {}
  /\ Head(todo) \in DOMAIN repositoryManifest
  /\ "MD5" \in DOMAIN repositoryManifest[Head(todo)]
  /\ repositoryManifest[Head(todo)]["MD5"]
       = MD5ToString(packageTable[Head(todo)].digest)
  /\ "TimePackaged" \in DOMAIN repositoryManifest[Head(todo)]

\* C1: archive reuse.  When the reconciler comes to a package that is
\* neither ignored nor a pure container, an archive of its id exists in the
\* repository and the manifest records an MD5 equal to the package's digest
\* together with a TimePackaged, then the step runs no archiver, compressor
\* or delete command, leaves every file of the repository with the contents
\* it had, leaves the staging directories alone, and gives the package the
\* manifest's TimePackaged.
C1_ArchiveReuse ==
  [][ReuseCase =>
       /\ \A c \in NewCommands : c[1] \notin {"tar", "compress", "delete", "extract"}
       /\ DOMAIN repo' = DOMAIN repo
       /\ \A n \in DOMAIN repo : repo'[n].data = repo[n].data
       /\ staging' = staging
       /\ exitCode' = exitCode
       /\ packageTable'[Head(todo)].timePackaged
            = ToTimeT(repositoryManifest[Head(todo)]["TimePackaged"])]_vars

\* C1, its case: foo was reconciled with an archive in the repository and a
\* manifest section that agreed, and its archive was only given its times
C1_Witness ==
  /\ run = 1 /\ pc = "zzdb1"
  /\ "foo" \in DOMAIN packageTable
  /\ "foo" \in DOMAIN ManifestFound
  /\ "TimePackaged" \in DOMAIN ManifestFound["foo"]
  /\ ManifestFound["foo"]["MD5"] = MD5ToString(packageTable["foo"].digest)
  /\ \E n \in ArchiveNamesOf("foo") :
       /\ n \in DOMAIN prev.repo
       /\ <<"settimes", n>> \in Range(log)
       /\ repo[n].data = prev.repo[n].data
  /\ packageTable["foo"].timePackaged = OldManifestTime

\* C2: after the categorizer pass of --update-repository, requiredBy is the
\* transpose of requiredPackages over the package table: for all packages p
\* and q of the table, q.id is among p's requiredPackages if and only if
\* p.id is among q's requiredBy.
C2_Transpose ==
  (mode = "update" /\ pc = "reconcile") =>
    \A p \in DOMAIN packageTable, q \in DOMAIN packageTable :
      (packageTable[q].id \in Range(packageTable[p].requiredPackages))
        <=> (packageTable[p].id \in Range(packageTable[q].requiredBy))

\* C2, its case: the categorizer has run on a table in which b is required
\* by a, and an orphan has been attached to an umbrella
C2_Witness ==
  /\ mode = "update" /\ pc = "reconcile"
  /\ {"a", "b", latexPackages} \subseteq DOMAIN packageTable
  /\ "b" \in Range(packageTable["a"].requiredPackages)
  /\ "a" \in Range(packageTable["b"].requiredBy)
  /\ latexPackages \in Range(packageTable["a"].requiredBy)
  /\ "a" \in Range(packageTable[latexPackages].requiredPackages)

\* The list of the package record a file was appended to, as often as it was
TimesListed(packageInfo, list, f) ==
  Occurrences(CASE list = "doc" -> packageInfo.docFiles
                [] list = "source" -> packageInfo.sourceFiles
                [] list = "run" -> packageInfo.runFiles, f)

\* C3: file classification.  Every file under Files/ of a collected package
\* is in exactly one of docFiles, sourceFiles, runFiles, once; in docFiles
\* iff its relative path begins with texmf/doc/, otherwise in sourceFiles
\* iff it begins with texmf/source/, otherwise in runFiles.
C3_Classification ==
  pc = "categorize" =>
    \A id \in DOMAIN packageTable :
      \A f \in DOMAIN staging[packageTable[id].path].files :
        /\ TimesListed(packageTable[id], "doc", f)
             + TimesListed(packageTable[id], "source", f)
             + TimesListed(packageTable[id], "run", f) = 1
        /\ TimesListed(packageTable[id], "doc", f) = 1
             <=> StartsWith(f, texmfPrefix \o "/doc/")
        /\ TimesListed(packageTable[id], "source", f) = 1
             <=> (~StartsWith(f, texmfPrefix \o "/doc/")
                  /\ StartsWith(f, texmfPrefix \o "/source/"))

\* The program has ended a repository-writing run with exit code 0
Succeeded == pc = "done" /\ exitCode = 0

\* The TDS digest of the files a staging directory holds, package manifest
\* files left out
ActualDigest(stagingDirectory) ==
  GetTdsDigest(FileDigestTable(staging[stagingDirectory].files))

\* C4: digest invariant.  After a run that wrote the repository, every
\* package of the table that was read from a staging directory and is not
\* ignored has as its digest, and as the MD5 of its manifest section, the
\* TDS digest of the files its staging directory holds, whatever MD5 key
\* package.ini carries.
C4_DigestInvariant ==
  Succeeded =>
    \A id \in DOMAIN packageTable :
      (packageTable[id].path \in DOMAIN staging /\ ~IsToBeIgnored(packageTable[id]))
        => /\ packageTable[id].digest = ActualDigest(packageTable[id].path)
           /\ (id \in DOMAIN repositoryManifest
                 /\ "MD5" \in DOMAIN repositoryManifest[id])
                => repositoryManifest[id]["MD5"]
                     = MD5ToString(ActualDigest(packageTable[id].path))

\* The names of the temporary artifacts of WriteDatabase
TemporaryArtifacts == {"mpm.ini", texmfPrefix, "package-manifests.ini", "files.csv"}

\* The ascending-sorted lines <name>;<size>\\n of the entries of a directory
SortedListing(dir) ==
  SetToSortedSeq({n \o ";" \o to_string(EntrySize(dir[n])) \o "\n" : n \in DOMAIN dir})

\* C5: listing discipline.  After the second write of pr.ini its lstdigest
\* is the digest of the ascending-sorted lines <name>;<size>\\n of exactly
\* the entries the repository directory then holds, pr.ini with its final
\* size among them and no temporary artifact.
C5_ListingDiscipline ==
  Succeeded =>
    /\ "pr.ini" \in DOMAIN repo
    /\ TemporaryArtifacts \cap DOMAIN repo = {}
    /\ repo["pr.ini"].data.lstdigest
         = MD5ToString(MD5Of(Concat(SortedListing(repo))))

\* C5, its case: a run that built an archive and the four database
\* archives has written pr.ini for the second time
C5_Witness ==
  /\ Succeeded
  /\ <<"compress", "foo.tar.lzma">> \in Range(log)
  /\ {"foo.tar.lzma", GetRepositoryManifestArchiveFileName, GetTpmArchiveFileName,
      GetPackageManifestsArchiveFileName, "files.csv.lzma", "pr.ini"}
       \subseteq DOMAIN repo
  /\ repo["pr.ini"].data.lstdigest # MD5ToString(MD5Of(""))

RECURSIVE SplitFrom(_, _, _)
\* The words of s from position start on, i the position looked at
SplitFrom(s, i, start) ==
  IF i > Len(s)
  THEN IF start > Len(s) THEN <<>> ELSE <<SubSeq(s, start, Len(s))>>
  ELSE IF Char(s, i) = " "
  THEN <<SubSeq(s, start, i - 1)>> \o SplitFrom(s, i + 1, i + 1)
  ELSE SplitFrom(s, i + 1, start)

\* The package ids lastupd of pr.ini lists
LastUpdIds == SplitFrom(repo["pr.ini"].data.lastupd, 1, 1)

\* The TimePackaged the repository manifest records for a package, -1 if none
RecordedTime(id) ==
  IF id \in DOMAIN repositoryManifest
     /\ "TimePackaged" \in DOMAIN repositoryManifest[id]
  THEN ToTimeT(repositoryManifest[id]["TimePackaged"])
  ELSE 0 - 1

\* C6: lastupd of pr.ini lists at most 20 distinct package ids of the table,
\* in an order in which the TimePackaged values the manifest records do not
\* increase, and no package left out has a TimePackaged greater than that
\* of a listed package.
C6_LastUpd ==
  (pc \in {"prini2", "done"} /\ "pr.ini" \in DOMAIN repo /\ exitCode # 1) =>
    /\ Len(LastUpdIds) <= 20
    /\ \A i \in DOMAIN LastUpdIds :
         /\ LastUpdIds[i] \in DOMAIN packageTable
         /\ \A j \in DOMAIN LastUpdIds :
              /\ i # j => LastUpdIds[i] # LastUpdIds[j]
              /\ i < j => RecordedTime(LastUpdIds[i]) >= RecordedTime(LastUpdIds[j])
         /\ \A q \in DOMAIN packageTable \ Range(LastUpdIds) :
              RecordedTime(q) <= RecordedTime(LastUpdIds[i])

\* C6, its case: pr.ini is written for a table of more than 20 packages of
\* which several share the latest time, and lastupd lists 20 of them
C6_Witness ==
  /\ Succeeded
  /\ Cardinality(DOMAIN packageTable) > 20
  /\ Len(LastUpdIds) = 20
  /\ RecordedTime(LastUpdIds[1]) = RecordedTime(LastUpdIds[2])
  /\ RecordedTime(LastUpdIds[1]) > RecordedTime(LastUpdIds[20])

\* The repository manifest and the package manifests a run left
ManifestOf(dir) == dir[GetRepositoryManifestArchiveFileName].data
TpmsOf(dir) == dir[GetTpmArchiveFileName].data

\* C7: idempotence.  When --update-repository has succeeded twice in a row
\* on the same staging roots, package list and repository, the second run
\* leaves the same repository manifest (MD5, TimePackaged, CabSize, CabMD5,
\* Type of every package) and the same package manifests (file lists and
\* sizes of every package) as the first, and has built no archive.
C7_Idempotence ==
  (mode = "update" /\ run = 2 /\ Succeeded /\ prev.exitCode = 0) =>
    /\ DOMAIN ManifestOf(repo) = DOMAIN ManifestOf(prev.repo)
    /\ \A id \in DOMAIN ManifestOf(repo) :
         \A key \in {"MD5", "TimePackaged", "CabSize", "CabMD5", "Type"} :
           ManifestOf(repo)[id][key] = ManifestOf(prev.repo)[id][key]
    /\ DOMAIN TpmsOf(repo) = DOMAIN TpmsOf(prev.repo)
    /\ \A id \in DOMAIN TpmsOf(repo) :
         /\ TpmsOf(repo)[id].data.runFiles = TpmsOf(prev.repo)[id].data.runFiles
         /\ TpmsOf(repo)[id].data.docFiles = TpmsOf(prev.repo)[id].data.docFiles
         /\ TpmsOf(repo)[id].data.sourceFiles = TpmsOf(prev.repo)[id].data.sourceFiles
         /\ TpmsOf(repo)[id].data.sizeRunFiles = TpmsOf(prev.repo)[id].data.sizeRunFiles
         /\ TpmsOf(repo)[id].data.sizeDocFiles = TpmsOf(prev.repo)[id].data.sizeDocFiles
         /\ TpmsOf(repo)[id].data.sizeSourceFiles
              = TpmsOf(prev.repo)[id].data.sizeSourceFiles
    /\ \A c \in Range(log) : c[1] # "tar"

\* The ids of the packages marked with level '-' that the run has to do
\* with: those of the table, and those of the staging directories it reads
IgnoredIds ==
  {id \in DOMAIN packageTable : IsToBeIgnored(packageTable[id])}
  \cup {staging[d].ini["id"] :
          d \in {x \in (IF mode = "create" THEN {stagingDir} ELSE DOMAIN staging) :
                   IsToBeIgnored(InitializePackageInfo(x))}}

\* The package a line of files.csv names
EndsWith(s, suffix) ==
  Len(s) >= Len(suffix) /\ SubSeq(s, Len(s) - Len(suffix) + 1, Len(s)) = suffix

\* C8: after a repository-writing run, a package marked with level '-' has
\* no section in the written repository manifest, no package manifest file
\* in the TPM archive, no entry in package-manifests.ini, no line in
\* files.csv, is not listed in lastupd and is not counted in numpkg.
C8_IgnoredExcluded ==
  Succeeded =>
    /\ \A id \in IgnoredIds :
         /\ id \notin DOMAIN ManifestOf(repo)
         /\ id \notin DOMAIN TpmsOf(repo)
         /\ id \notin DOMAIN repo[GetPackageManifestsArchiveFileName].data
         /\ \A i \in DOMAIN repo["files.csv.lzma"].data :
              ~EndsWith(repo["files.csv.lzma"].data[i], ";" \o id)
         /\ id \notin Range(LastUpdIds)
    /\ ToTimeT(repo["pr.ini"].data.numpkg)
         = Cardinality(DOMAIN ManifestOf(repo) \ IgnoredIds)

\* What the clean-up is to delete: <stem>.cab if <stem>.tar.bz2 or
\* <stem>.tar.lzma is there, <stem>.tar.bz2 if <stem>.tar.lzma is there
Superseded(n, dir) ==
  \/ /\ EndsWith(n, ".cab")
     /\ \/ (SubSeq(n, 1, Len(n) - Len(".cab")) \o ".tar.bz2") \in DOMAIN dir
        \/ (SubSeq(n, 1, Len(n) - Len(".cab")) \o ".tar.lzma") \in DOMAIN dir
  \/ /\ EndsWith(n, ".tar.bz2")
     /\ (SubSeq(n, 1, Len(n) - Len(".tar.bz2")) \o ".tar.lzma") \in DOMAIN dir

\* C9: CleanUp deletes a file of the repository directory if and only if it
\* is an archive superseded by a same-stem archive of a newer format.
C9_CleanUp ==
  [][pc = "cleanup" =>
       \A n \in DOMAIN repo : (n \notin DOMAIN repo') <=> Superseded(n, repo)]_vars

\* The stage of WriteDatabase a command of the log belongs to, 0 for the
\* commands that load the manifests and reconcile the package archives
StageOf(c) ==
  CASE c[1] \in {"archive", "delete"} /\ c[2] = GetRepositoryManifestArchiveFileName -> 1
    [] c[1] \in {"archive", "delete"} /\ c[2] = GetTpmArchiveFileName -> 2
    [] c[1] \in {"archive", "delete"} /\ c[2] = GetPackageManifestsArchiveFileName -> 3
    [] c[1] \in {"compress", "delete"} /\ c[2] = "files.csv.lzma" -> 4
    [] c[1] \in {"cleanup", "remove"} -> 5
    [] c[1] \in {"write", "delete"} /\ c[2] = "pr.ini" -> 6
    [] c[1] = "list" -> 6
    [] OTHER -> 0

\* What a run produces, in the order it produces it
Produced ==
  SelectSeq(log, LAMBDA c : c[1] \in {"archive", "cleanup", "write"}
                             \/ c = <<"compress", "files.csv.lzma">>)

\* C10: publication order.  The commands of a run come in the order of the
\* stages: package archives, zzdb1, zzdb2, zzdb3, files.csv.lzma, clean-up,
\* pr.ini; a run that succeeds has produced each database archive once, in
\* this order, then cleaned up, then written pr.ini twice; and once pr.ini
\* has been written no other file of the repository is created, modified
\* or deleted.
C10_PublicationOrder ==
  /\ [](\A i \in DOMAIN log : \A j \in DOMAIN log :
          i < j => StageOf(log[i]) <= StageOf(log[j]))
  /\ [](Succeeded =>
          Produced = << <<"archive", GetRepositoryManifestArchiveFileName>>,
                        <<"archive", GetTpmArchiveFileName>>,
                        <<"archive", GetPackageManifestsArchiveFileName>>,
                        <<"compress", "files.csv.lzma">>,
                        <<"cleanup", "">>,
                        <<"write", "pr.ini">>, <<"write", "pr.ini">> >>)
  /\ [][(<<"write", "pr.ini">> \in Range(log) /\ run' = run) =>
          /\ DOMAIN repo' = DOMAIN repo
          /\ \A n \in DOMAIN repo \ {"pr.ini"} : repo'[n] = repo[n]]_vars

\* C10, its case: a run that rebuilt a package archive and removed a
\* superseded one has written pr.ini for the second time
C10_Witness ==
  /\ Succeeded
  /\ \E c \in Range(log) : c[1] = "tar"
  /\ \E c \in Range(log) : c[1] = "settimes"
  /\ Len(Produced) = 7

\* C12: working-directory scoping.  Every step of a run leaves the process
\* with the current working directory it had when the step began, and
\* every package is reconciled with the directory the program was started
\* in as the current one.
C12_WorkingDirectory ==
  /\ [][run' = run => cwd' = cwd]_vars
  /\ [](pc = "reconcile" => cwd = startDirectory)

\* Whether a command of this run was made to fail, or the run was killed
FaultFree ==
  /\ exitCode # 0 - 1
  /\ \A c \in Range(log) : c[1] # "fault"

\* C11: fail-stop.  The step in which an external command fails, or another
\* fatal error is detected, is the last step of the run and the exit code
\* is 1; a run that ended with exit code 0 had no command fail and produced
\* every artifact.
C11_FailStop ==
  /\ [][(\E c \in NewCommands : c[1] \in {"fault", "failed"})
          => (pc' = "done" /\ exitCode' = 1)]_vars
  /\ [](exitCode = 1 => pc = "done")
  /\ [](exitCode = 0 =>
          /\ \A c \in Range(log) : c[1] \notin {"fault", "failed"}
          /\ Len(Produced) = 7
          /\ todo = <<>>)

\* Manifest and archives agree: every section of the written repository
\* manifest that records an archive has a whole archive of its id in the
\* repository, with the recorded digest, built from the recorded contents
Consistent ==
  \A id \in {i \in DOMAIN ManifestOf(repo) : "CabMD5" \in DOMAIN ManifestOf(repo)[i]} :
    /\ HavePackageArchiveFile(repo, id).archiveFileType # "None"
    /\ repo[HavePackageArchiveFile(repo, id).archiveFile].kind = "archive"
    /\ ManifestOf(repo)[id]["CabMD5"]
         = MD5ToString(MD5Of(ArchiveBytes(
             repo[HavePackageArchiveFile(repo, id).archiveFile].data)))

\* C13: recovery.  When a run of --update-repository was stopped by a
\* failing command or by a kill, the next run on the same inputs, in which
\* no command fails, ends with exit code 0 and with a manifest and
\* archives that agree.
C13_Recovery ==
  (mode = "update" /\ run = 2 /\ pc = "done" /\ FaultFree
     /\ prev.exitCode # 0)
    => (exitCode = 0 /\ Consistent)

\* The staging directories that hold the package id and are not ignored
DirsOf(id) ==
  {d \in DOMAIN staging :
     staging[d].ini["id"] = id /\ ~IsToBeIgnored(InitializePackageInfo(d))}

\* The one of them the directory lister gives first
FirstDirOf(id) ==
  StagingDirs[CHOOSE i \in DOMAIN StagingDirs :
                /\ StagingDirs[i] \in DirsOf(id)
                /\ \A j \in 1..(i - 1) : StagingDirs[j] \notin DirsOf(id)]

\* C14: duplicate packages.  When --update-repository has collected the
\* staging directories, the table holds for every package id the
\* PackageInfo of the first staging directory with that id, as collected
\* from that directory alone; every later staging directory with the id
\* has produced one warning and nothing else, and the run goes on.
C14_Duplicates ==
  (mode = "update" /\ pc = "categorize") =>
    /\ DOMAIN packageTable = {staging[d].ini["id"] : d \in DOMAIN staging}
    /\ \A id \in DOMAIN packageTable :
         /\ packageTable[id] = CollectPackage(InitializePackageInfo(FirstDirOf(id)))
         /\ \A d \in DirsOf(id) \ {FirstDirOf(id)} :
              Cardinality({i \in DOMAIN log : log[i] = <<"warning", d>>}) = 1
         /\ <<"warning", FirstDirOf(id)>> \notin Range(log)
    /\ exitCode = 0 - 1

\* C14, its case: the package a was found in three staging directories,
\* the first of them listed before the directory named a
C14_Witness ==
  /\ mode = "update" /\ pc = "categorize"
  /\ Cardinality(DirsOf("a")) = 3
  /\ packageTable["a"].path = "0a"
  /\ <<"warning", "a">> \in Range(log)

\* C15: pruning.  The repository manifest WriteDatabase writes under
\* --update-repository holds only sections whose id is in the package table
\* and is not to be ignored, and every section of a package that is in the
\* table and not to be ignored is written as it was before the pruning.
C15_Pruning ==
  [][(pc = "zzdb1" /\ mode = "update") =>
       /\ \A id \in DOMAIN ManifestOf(repo') :
            id \in DOMAIN packageTable /\ ~IsToBeIgnored(packageTable[id])
       /\ \A id \in DOMAIN repositoryManifest :
            (id \in DOMAIN packageTable /\ ~IsToBeIgnored(packageTable[id]))
              => /\ id \in DOMAIN ManifestOf(repo')
                 /\ ManifestOf(repo')[id] = repositoryManifest[id]]_vars

\* C15, its case: the manifest found had a section that the written one has
\* no more, and another one that was kept
C15_Witness ==
  /\ mode = "update" /\ run = 1 /\ pc = "zzdb2"
  /\ \E id \in DOMAIN ManifestFound : id \notin DOMAIN ManifestOf(repo)
  /\ \E id \in DOMAIN ManifestFound : id \in DOMAIN ManifestOf(repo)

\* The archive of id that is looked at when several are in the repository
ArchiveFound(id) ==
  IF id \o ".tar.lzma" \in DOMAIN repo THEN id \o ".tar.lzma"
  ELSE IF id \o ".tar.bz2" \in DOMAIN repo THEN id \o ".tar.bz2"
  ELSE id \o ".cab"

\* The package manifest file inside the archive found for id
EmbeddedTpm(id) == repo[ArchiveFound(id)].data[TpmPath(id)].data

\* The loop of UpdateRepository is at a package that is neither ignored nor
\* a pure container, an archive of its id that holds its package manifest
\* file is in the repository, and the manifest has no MD5 for the package,
\* another MD5 than its digest, or no TimePackaged
DisagreeCase ==
  /\ pc = "reconcile" /\ todo # <<>>
  /\ ~IsToBeIgnored(packageTable[Head(todo)])
  /\ ~IsPureContainerPackage(packageTable[Head(todo)])
  /\ ArchiveNamesOf(Head(todo)) \cap DOMAIN repo # {}
  /\ TpmPath(Head(todo)) \in DOMAIN repo[ArchiveFound(Head(todo))].data
  /\ \/ Head(todo) \notin DOMAIN repositoryManifest
     \/ "MD5" \notin DOMAIN repositoryManifest[Head(todo)]
     \/ repositoryManifest[Head(todo)]["MD5"]
          # MD5ToString(packageTable[Head(todo)].digest)
     \/ "TimePackaged" \notin DOMAIN repositoryManifest[Head(todo)]

\* C16: manifest/archive disagreement.  When the reconciler comes to a
\* package with an archive in the repository while the manifest has no MD5
\* for it, an MD5 that differs from the package's digest, or no
\* TimePackaged, the step extracts the package manifest file from the
\* archive and extracts nothing else; if the digest in that file equals the
\* package's digest, the step runs no archiver, compressor or delete
\* command, leaves the contents of the repository and the staging
\* directories alone and gives the package the time stamp of the extracted
\* file; otherwise the step goes on to rebuild the archive.
C16_Disagreement ==
  [][DisagreeCase =>
       /\ <<"extract", ArchiveFound(Head(todo))>> \in NewCommands
       /\ \A c \in NewCommands :
            c[1] = "extract" => c[2] = ArchiveFound(Head(todo))
       /\ IF EmbeddedTpm(Head(todo)).digest = packageTable[Head(todo)].digest
          THEN /\ \A c \in NewCommands : c[1] \notin {"tar", "compress", "delete"}
               /\ DOMAIN repo' = DOMAIN repo
               /\ \A n \in DOMAIN repo : repo'[n].data = repo[n].data
               /\ staging' = staging
               /\ exitCode' = exitCode
               /\ packageTable'[Head(todo)].timePackaged
                    = EmbeddedTpm(Head(todo)).timePackaged
          ELSE \/ <<"tar", Head(todo) \o ".tar">> \in NewCommands
               \/ <<"failed", packageTable[Head(todo)].path>> \in NewCommands]_vars

\* C16, its cases: foo was reconciled with an archive in the repository
\* that the manifest did not vouch for; the archive was opened and, holding
\* the digest of foo, kept with the time stamp found inside, or, holding
\* another digest, made anew
C16_Witness ==
  /\ run = 1 /\ pc = "zzdb1" /\ mode = "update"
  /\ "foo" \in DOMAIN packageTable
  /\ "foo.tar.lzma" \in DOMAIN prev.repo
  /\ <<"extract", "foo.tar.lzma">> \in Range(log)
  /\ <<"tar", "foo.tar">> \notin Range(log)
  /\ repo["foo.tar.lzma"].data = prev.repo["foo.tar.lzma"].data
  /\ packageTable["foo"].timePackaged = OldEmbeddedTime
  /\ ~("foo" \in DOMAIN ManifestFound
        /\ "TimePackaged" \in DOMAIN ManifestFound["foo"]
        /\ ManifestFound["foo"]["MD5"] = MD5ToString(packageTable["foo"].digest))

\* The step being taken is a turn of the loop of UpdateRepository in which
\* CreateArchiveFile makes the archive of the package anew and returns
RebuildStep ==
  /\ pc = "reconcile" /\ todo # <<>>
  /\ <<"tar", Head(todo) \o ".tar">> \in NewCommands
  /\ exitCode' = exitCode

\* The manifest records the digest of the package the loop is at as MD5,
\* and a TimePackaged
ManifestVouches ==
  /\ Head(todo) \in DOMAIN repositoryManifest
  /\ "MD5" \in DOMAIN repositoryManifest[Head(todo)]
  /\ repositoryManifest[Head(todo)]["MD5"]
       = MD5ToString(packageTable[Head(todo)].digest)
  /\ "TimePackaged" \in DOMAIN repositoryManifest[Head(todo)]

\* C17: the time stamp of a rebuild.  When CreateArchiveFile makes the
\* archive of a package anew, the package gets the manifest's TimePackaged
\* if the manifest records an MD5 equal to the package's digest and a
\* TimePackaged, and the program start time otherwise; and a package with
\* an archive in the repository whose digest differs from the manifest's
\* MD5 and from the digest inside the archive gets the program start time.
C17_TimePackaged ==
  [][/\ RebuildStep =>
          packageTable'[Head(todo)].timePackaged
            = IF ManifestVouches
              THEN ToTimeT(repositoryManifest[Head(todo)]["TimePackaged"])
              ELSE programStartTime
     /\ (/\ DisagreeCase
         /\ Head(todo) \in DOMAIN repositoryManifest
              => /\ "MD5" \in DOMAIN repositoryManifest[Head(todo)]
                 /\ repositoryManifest[Head(todo)]["MD5"]
                      # MD5ToString(packageTable[Head(todo)].digest)
         /\ EmbeddedTpm(Head(todo)).digest # packageTable[Head(todo)].digest
         /\ exitCode' = exitCode)
          => packageTable'[Head(todo)].timePackaged = programStartTime]_vars

\* C17, its case: the archive of foo was made anew, with the time stamp
\* that the manifest held for the digest of foo and not the time of the run
C17_Witness ==
  /\ run = 1 /\ pc = "zzdb1"
  /\ "foo" \in DOMAIN packageTable
  /\ <<"tar", "foo.tar">> \in Range(log)
  /\ "foo" \in DOMAIN ManifestFound
  /\ "TimePackaged" \in DOMAIN ManifestFound["foo"]
  /\ ManifestFound["foo"]["MD5"] = MD5ToString(packageTable["foo"].digest)
  /\ packageTable["foo"].timePackaged = OldManifestTime
  /\ packageTable["foo"].timePackaged # programStartTime

\* A package the loop of UpdateRepository passes over
Excluded(p) ==
  \/ GetPackageLevel(p) = "-"
  \/ Len(p.runFiles) + Len(p.docFiles) + Len(p.sourceFiles) = 0
  \/ /\ Len(p.docFiles) = 0 /\ Len(p.sourceFiles) = 0 /\ Len(p.runFiles) = 1
     /\ EndsWith(p.runFiles[1], ".tpm")

\* The section has the value of key if and only if the field holds
\* something, and then holds the field
PresentIffNonEmpty(section, key, field) ==
  IF field = "" THEN key \notin DOMAIN section
  ELSE key \in DOMAIN section /\ section[key] = field

\* C18: the manifest update.  When UpdateRepository has returned, the
\* manifest has a section for every package of the table that is neither
\* ignored nor a pure container, and in it Level is the level of the
\* package, MD5 its digest, TimePackaged its time stamp, and each of
\* Version, TargetSystem and MinTargetSystemVersion is there if and only if
\* the field of the package is not empty, and then holds the field.
C18_ManifestUpdate ==
  pc = "zzdb1" =>
    \A id \in DOMAIN packageTable :
      ~Excluded(packageTable[id]) =>
        /\ id \in DOMAIN repositoryManifest
        /\ {"Level", "MD5", "TimePackaged"} \subseteq DOMAIN repositoryManifest[id]
        /\ repositoryManifest[id]["Level"] = GetPackageLevel(packageTable[id])
        /\ MD5Parse(repositoryManifest[id]["MD5"]) = packageTable[id].digest
        /\ ToTimeT(repositoryManifest[id]["TimePackaged"])
             = packageTable[id].timePackaged
        /\ PresentIffNonEmpty(repositoryManifest[id], "Version",
                              packageTable[id].version)
        /\ PresentIffNonEmpty(repositoryManifest[id], "TargetSystem",
                              packageTable[id].targetSystem)
        /\ PresentIffNonEmpty(repositoryManifest[id], "MinTargetSystemVersion",
                              packageTable[id].minTargetSystemVersion)

\* C18, its case: UpdateRepository has returned; the manifest it was given
\* held a Version, a TargetSystem and a MinTargetSystemVersion for foo,
\* whose package.ini has another version, no target system, and another
\* minimum target system version
C18_Witness ==
  /\ pc = "zzdb1" /\ mode = "update"
  /\ "foo" \in DOMAIN packageTable
  /\ DOMAIN OldOptionalValues \subseteq DOMAIN ManifestFound["foo"]
  /\ {"Version", "MinTargetSystemVersion"} \subseteq DOMAIN repositoryManifest["foo"]
  /\ ManifestFound["foo"]["Version"] = "1.1"
  /\ ManifestFound["foo"]["TargetSystem"] = "linux"
  /\ ManifestFound["foo"]["MinTargetSystemVersion"] = "2.9.6000"
  /\ repositoryManifest["foo"]["Version"] = "1.2"
  /\ repositoryManifest["foo"]["MinTargetSystemVersion"] = "2.9.7000"
  /\ packageTable["foo"].version = "1.2"
  /\ packageTable["foo"].targetSystem = ""
  /\ packageTable["foo"].minTargetSystemVersion = "2.9.7000"
  /\ "TargetSystem" \notin DOMAIN repositoryManifest["foo"]

\* C19: exclusion from reconciliation.  When the loop of UpdateRepository
\* is at a package that is ignored (level "-") or a pure container (no
\* files at all, or one run file with the extension .tpm and no doc or
\* source files), the step runs no command, leaves every file of the
\* repository and of the staging directories as it is, leaves the section
\* of the package in the manifest as it is, or absent, and leaves the
\* package record as it is.
C19_Exclusion ==
  [][(pc = "reconcile" /\ todo # <<>> /\ Excluded(packageTable[Head(todo)])) =>
       /\ log' = log
       /\ repo' = repo
       /\ staging' = staging
       /\ cwd' = cwd
       /\ exitCode' = exitCode
       /\ Head(todo) \in DOMAIN repositoryManifest'
            <=> Head(todo) \in DOMAIN repositoryManifest
       /\ Head(todo) \in DOMAIN repositoryManifest
            => repositoryManifest'[Head(todo)] = repositoryManifest[Head(todo)]
       /\ packageTable'[Head(todo)] = packageTable[Head(todo)]]_vars

\* C19, its case: UpdateRepository has returned from a table in which bar
\* has its package manifest file and nothing else; the archive and the
\* section an earlier run made for bar are as they were, and no command
\* was run on the archive
C19_Witness ==
  /\ pc = "zzdb1" /\ mode = "update"
  /\ {"foo", "bar"} \subseteq DOMAIN packageTable
  /\ packageTable["bar"].runFiles = <<TpmPath("bar")>>
  /\ packageTable["bar"].docFiles = <<>>
  /\ packageTable["bar"].sourceFiles = <<>>
  /\ "bar.tar.lzma" \in DOMAIN prev.repo
  /\ repo["bar.tar.lzma"] = prev.repo["bar.tar.lzma"]
  /\ repositoryManifest["bar"] = ManifestFound["bar"]
  /\ \A i \in DOMAIN log : log[i][2] # "bar.tar.lzma"
  /\ "MD5" \in DOMAIN repositoryManifest["foo"]

\* The archive file type that goes with the name of an archive file
TypeOfName(name) ==
  IF EndsWith(name, ".tar.lzma") THEN "TarLzma"
  ELSE IF EndsWith(name, ".tar.bz2") THEN "TarBzip2"
  ELSE IF EndsWith(name, ".cab") THEN "MSCab"
  ELSE "None"

\* C20: the lookup of an existing archive.  For the packages foo and bar
\* and every state of the repository directory, HavePackageArchiveFile
\* reports <id>.tar.lzma if that file exists, else <id>.tar.bz2 if that
\* file exists, else <id>.cab if that file exists, and else no file and
\* the type None; the type reported is the one that goes with the
\* extension of the file reported.
C20_Lookup ==
  \A id \in {"foo", "bar"} :
    /\ IF ArchiveNamesOf(id) \cap DOMAIN repo = {}
       THEN HavePackageArchiveFile(repo, id).archiveFileType = "None"
       ELSE HavePackageArchiveFile(repo, id).archiveFile = ArchiveFound(id)
    /\ HavePackageArchiveFile(repo, id).archiveFileType
         = TypeOfName(HavePackageArchiveFile(repo, id).archiveFile)

\* C20, its case: the reconciler looked foo up in a repository that held
\* foo.cab and foo.tar.bz2 and no foo.tar.lzma, and went on with
\* foo.tar.bz2 and the type TarBzip2
C20_Witness ==
  /\ run = 1 /\ pc = "zzdb1"
  /\ {"foo.cab", "foo.tar.bz2"} \subseteq DOMAIN prev.repo
  /\ "foo.tar.lzma" \notin DOMAIN prev.repo
  /\ "foo" \in DOMAIN packageTable
  /\ <<"settimes", "foo.tar.bz2">> \in Range(log)
  /\ <<"settimes", "foo.cab">> \notin Range(log)
  /\ repositoryManifest["foo"]["Type"] = "TarBzip2"

\* No package of the table requires id
NotRequired(id) ==
  \A q \in DOMAIN packageTable : id \notin Range(packageTable[q].requiredPackages)

\* The umbrella a package of the table is to be attached to, "" for none
UmbrellaFor(id) ==
  IF ~NotRequired(id) THEN ""
  ELSE IF /\ latexPackages \in DOMAIN packageTable
          /\ Len(packageTable[id].ctanPath) >= 22
          /\ SubSeq(packageTable[id].ctanPath, 1, 22) = "/macros/latex/contrib/"
  THEN latexPackages
  ELSE IF /\ fontsType1 \in DOMAIN packageTable
          /\ Len(packageTable[id].ctanPath) >= 7
          /\ SubSeq(packageTable[id].ctanPath, 1, 7) = "/fonts/"
          /\ \E f \in Range(packageTable[id].runFiles) :
               \E dir \in {"texmf/fonts/type1/", "texmf/fonts/truetype/"} :
                 Len(f) >= Len(dir) /\ SubSeq(f, 1, Len(dir)) = dir
  THEN fontsType1
  ELSE ""

\* The table after the categorizer pass had the table been scanned from
\* its last package to its first
ScannedBackwards ==
  CategorizeFrom(Reverse(SetToSortedSeq(DOMAIN packageTable)),
                 DetermineDependencies(packageTable))

\* C21: orphan categorization.  The categorizer pass attaches a package to
\* an umbrella only if no package of the table requires it: to
\* _miktex-latex-packages if and only if that package is in the table and
\* the CTAN path starts with /macros/latex/contrib/, otherwise to
\* _miktex-fonts-type1 if and only if that package is in the table, the
\* CTAN path starts with /fonts/ and a run file lies under
\* texmf/fonts/type1/ or texmf/fonts/truetype/.  A package attached has the
\* umbrella as its only requiredBy entry, the umbrella gets its id once
\* more among its requiredPackages, a package not attached is put on no
\* list, and a scan of the table in the opposite order attaches the same
\* packages to the same umbrellas.
C21_Categorization ==
  [][pc = "categorize" =>
       \A id \in DOMAIN packageTable :
         /\ UmbrellaFor(id) # ""
              => packageTable'[id].requiredBy = <<UmbrellaFor(id)>>
         /\ UmbrellaFor(id) = ""
              => \A q \in DOMAIN packageTable \cup {latexPackages, fontsType1} :
                   Occurrences(packageTable'[id].requiredBy, q)
                     = IF q \in DOMAIN packageTable
                       THEN Occurrences(packageTable[q].requiredPackages, id)
                       ELSE 0
         /\ \A u \in DOMAIN packageTable :
              Occurrences(packageTable'[u].requiredPackages, id)
                = Occurrences(packageTable[u].requiredPackages, id)
                    + (IF UmbrellaFor(id) = u THEN 1 ELSE 0)
         /\ Range(ScannedBackwards[id].requiredBy)
              = Range(packageTable'[id].requiredBy)
         /\ \A q \in DOMAIN packageTable :
              Occurrences(ScannedBackwards[id].requiredPackages, q)
                = Occurrences(packageTable'[id].requiredPackages, q)]_vars

\* C21, its case: the pass found both umbrellas in the table, attached a,
\* a font package that nothing requires, to _miktex-fonts-type1, and b, a
\* LaTeX package that nothing requires, to _miktex-latex-packages
C21_Witness ==
  /\ pc = "reconcile"
  /\ {"a", "b", latexPackages, fontsType1} \subseteq DOMAIN packageTable
  /\ packageTable["a"].requiredBy = <<fontsType1>>
  /\ packageTable["b"].requiredBy = <<latexPackages>>
  /\ "a" \in Range(packageTable[fontsType1].requiredPackages)
  /\ "b" \in Range(packageTable[latexPackages].requiredPackages)
  /\ "a" \notin Range(packageTable[latexPackages].requiredPackages)

\* The packages package.ini of the staging directory of id requires
RequiresOfIni(id) ==
  IF "requires" \in DOMAIN staging[packageTable[id].path].ini
  THEN Range(staging[packageTable[id].path].ini["requires"])
  ELSE {}

\* C29: no self-dependency.  After the categorizer pass no package of the
\* table has its own id among its requiredPackages or its requiredBy,
\* unless its package.ini requires it; an umbrella package is not attached
\* to itself, whatever its CTAN path and files.
C29_NoSelfDependency ==
  (mode = "update" /\ pc = "reconcile") =>
    \A id \in DOMAIN packageTable :
      (\/ id \in Range(packageTable[id].requiredPackages)
       \/ id \in Range(packageTable[id].requiredBy))
        => id \in RequiresOfIni(id)

\* Every package of the table has in package.ini the TDS digest of the
\* files its staging directory holds
NoMismatch ==
  \A id \in DOMAIN packageTable :
    packageTable[id].digest = ActualDigest(packageTable[id].path)

\* C22: verification in --build-tds.  When BuildTDS comes to a package that
\* is not ignored and whose digest is not the TDS digest of its files, the
\* run ends there with exit code 1, the manifest has no section for the
\* package, no file of a later package has been copied and mpm.ini is not
\* written; and a run over packages none of which mismatches ends with
\* exit code 0 and an mpm.ini that holds Level, MD5 and TimePackaged for
\* every package that is not ignored.
C22_TdsVerification ==
  /\ [][(/\ pc = "buildtds" /\ todo # <<>>
         /\ ~IsToBeIgnored(packageTable[Head(todo)])
         /\ packageTable[Head(todo)].digest
              # ActualDigest(packageTable[Head(todo)].path))
          => /\ pc' = "done"
             /\ exitCode' = 1
             /\ Head(todo) \notin DOMAIN repositoryManifest'
             /\ MpmIniPath \notin DOMAIN texmfParent'
             /\ \A i \in 2..Len(todo) :
                  TpmPath(todo[i]) \notin DOMAIN texmfParent']_vars
  /\ []((mode = "tds" /\ pc = "done" /\ packageTable # <<>> /\ NoMismatch)
          => /\ exitCode = 0
             /\ MpmIniPath \in DOMAIN texmfParent
             /\ \A id \in DOMAIN packageTable :
                  ~IsToBeIgnored(packageTable[id])
                    => /\ id \in DOMAIN texmfParent[MpmIniPath].data
                       /\ {"Level", "MD5", "TimePackaged"}
                            \subseteq DOMAIN texmfParent[MpmIniPath].data[id])

\* The line the innermost call of ReadList is about to read
CurrentLine ==
  listFiles[readStack[Len(readStack)].path][readStack[Len(readStack)].line]

\* The index of the first character of a line that is no blank
FirstNonBlank(line) ==
  IF \E i \in 1..Len(line) : SubSeq(line, i, i) \notin {" ", "\t"}
  THEN CHOOSE i \in 1..Len(line) :
         /\ SubSeq(line, i, i) \notin {" ", "\t"}
         /\ \A j \in 1..(i - 1) : SubSeq(line, j, j) \in {" ", "\t"}
  ELSE Len(line) + 1

\* A line that names a level and, behind it, a package
LevelLine(line) ==
  /\ FirstNonBlank(line) <= Len(line)
  /\ SubSeq(line, FirstNonBlank(line), FirstNonBlank(line))
       \in {"S", "M", "L", "T", "-"}
  /\ Tokens(line, SkipBlanks(line, FirstNonBlank(line) + 1)) # <<>>

LevelOfLine(line) == SubSeq(line, FirstNonBlank(line), FirstNonBlank(line))

IdOfLine(line) == Tokens(line, SkipBlanks(line, FirstNonBlank(line) + 1))[1]

\* C23: reading the package list.  The level of a list line is its first
\* non-space character, one of S M L T -: when ReadList reads such a line
\* for a package that is not yet in the list and the line is valid, the
\* package is recorded with that level; when the package is in the list
\* already, the list stays as it is and a warning is given; and a package
\* that is not in the list has the default level.
C23_PackageList ==
  /\ [][(/\ pc = "readlist"
         /\ readStack[Len(readStack)].line
              <= Len(listFiles[readStack[Len(readStack)].path])
         /\ LevelLine(CurrentLine))
          => IF IdOfLine(CurrentLine) \in DOMAIN packageList
             THEN /\ packageList' = packageList
                  /\ log' = Append(log, <<"warning", IdOfLine(CurrentLine)>>)
             ELSE pc' # "done"
                    => /\ IdOfLine(CurrentLine) \in DOMAIN packageList'
                       /\ packageList'[IdOfLine(CurrentLine)].level
                            = LevelOfLine(CurrentLine)]_vars
  /\ [](\A id \in {"foo", "bar", "baz"} :
          GetPackageLevel([id |-> id])
            = IF id \in DOMAIN packageList THEN packageList[id].level
              ELSE defaultLevel)

\* C30: reading the package list terminates.  ReadList never has more
\* calls under way than there are list files, so that no file is being
\* read by two calls at once, and the reading ends by coming to the end of
\* the file --package-list names or by an invalid line or a missing file.
C30_ReadListTerminates ==
  /\ Len(readStack) <= Cardinality(DOMAIN listFiles)
  /\ \A i, j \in DOMAIN readStack :
       readStack[i].path = readStack[j].path => i = j

\* The paths CleanUp announces and deletes in the step it takes
Removing ==
  [i \in 1..(Len(log') - Len(log) - 1) |-> log'[Len(log) + 1 + i][2]]

\* C27: CleanUp schedules every file for deletion at most once: no path is
\* twice in its to-be-deleted list, and it issues no delete for a file it
\* has already deleted, whatever .cab, .tar.bz2 and .tar.lzma files there are
C27_DeleteOnce ==
  [][pc = "cleanup" =>
       /\ \A i, j \in DOMAIN Removing : Removing[i] = Removing[j] => i = j
       /\ \A i \in DOMAIN Removing : Removing[i] \in DOMAIN repo]_vars

\* The files of the packages of the table that are not to be ignored, each
\* with the id of its package
IndexedFiles ==
  {<<f, id>> \in
     UNION {Range(packageTable[id].runFiles \o packageTable[id].docFiles
                    \o packageTable[id].sourceFiles) \X {id}
              : id \in DOMAIN packageTable} :
     ~IsToBeIgnored(packageTable[id])}

\* The line is <path without the texmf prefix>;<id> for this file and id
LineOf(line, f, id) == texmfPrefix \o "/" \o line = f \o ";" \o id

\* C24: files.csv holds exactly one line <path without the texmf
\* prefix>;<id> for every run, doc and source file of every package of the
\* table that is not ignored, and no other line; the lines are in ascending
\* order; and when CreateFileListFile has returned, files.csv.lzma is in the
\* repository and the uncompressed files.csv has been deleted
C24_FileList ==
  [][pc = "filelist" /\ pc' = AfterStep("filelist") =>
       /\ "files.csv" \notin DOMAIN repo'
       /\ "files.csv.lzma" \in DOMAIN repo'
       /\ \A e \in IndexedFiles :
            Cardinality({i \in DOMAIN repo'["files.csv.lzma"].data :
                           LineOf(repo'["files.csv.lzma"].data[i], e[1], e[2])}) = 1
       /\ \A i \in DOMAIN repo'["files.csv.lzma"].data :
            \E e \in IndexedFiles :
              LineOf(repo'["files.csv.lzma"].data[i], e[1], e[2])
       /\ \A i \in DOMAIN repo'["files.csv.lzma"].data :
            i > 1 => StrLess(repo'["files.csv.lzma"].data[i - 1],
                             repo'["files.csv.lzma"].data[i])]_vars

\* CreateFileListFile has just returned: the index has lines of two
\* packages, which the order of the table alone would not have put in
\* ascending order
C24_Witness ==
  /\ pc = AfterStep("filelist")
  /\ "files.csv.lzma" \in DOMAIN repo
  /\ repo["files.csv.lzma"].kind = "csv"
  /\ Len(repo["files.csv.lzma"].data) >= 3
  /\ repo["files.csv.lzma"].data = CreateFileListFile(packageTable)
  /\ repo["files.csv.lzma"].data
       # FileListLines(SetToSortedSeq(DOMAIN packageTable), packageTable)
  /\ \E a, b \in IndexedFiles : a[2] # b[2]

\* The step being taken is a turn of the loop of UpdateRepository for a
\* package that is neither ignored nor a pure container, and it returns
RecordingStep ==
  /\ pc = "reconcile" /\ todo # <<>>
  /\ ~IsToBeIgnored(packageTable[Head(todo)])
  /\ ~IsPureContainerPackage(packageTable[Head(todo)])
  /\ exitCode' = exitCode

\* The Type the step being taken leaves in the manifest for its package
TypeRecorded == repositoryManifest'[Head(todo)]["Type"]

\* C28: the Type UpdateRepository records for a package is one of MSCab,
\* TarBzip2 and TarLzma, never unknown: the type of the existing archive
\* that was found when the archive is reused, and TarLzma when the archive
\* is made anew, whatever archive type the package list gives the package
C28_TypeRecorded ==
  [][RecordingStep =>
       /\ Head(todo) \in DOMAIN repositoryManifest'
       /\ "Type" \in DOMAIN repositoryManifest'[Head(todo)]
       /\ TypeRecorded \in {"MSCab", "TarBzip2", "TarLzma"}
       /\ IF <<"tar", Head(todo) \o ".tar">> \in NewCommands
          THEN TypeRecorded = "TarLzma"
          ELSE /\ ArchiveNamesOf(Head(todo)) \cap DOMAIN repo # {}
               /\ TypeRecorded = TypeOfName(ArchiveFound(Head(todo)))]_vars

\* UpdateRepository has returned: the package list gives foo the archive
\* type TarBzip2, the archive of foo was made anew, and the manifest
\* records TarLzma for it
C28_Witness ==
  /\ run = 1 /\ pc = "zzdb1"
  /\ "foo" \in DOMAIN packageList
  /\ packageList["foo"].archiveFileType = "TarBzip2"
  /\ <<"tar", "foo.tar">> \in Range(log)
  /\ "foo" \in DOMAIN repositoryManifest
  /\ "Type" \in DOMAIN repositoryManifest["foo"]
  /\ repositoryManifest["foo"]["Type"] = "TarLzma"

\* The archive of id whose extension goes with the Type the written
\* manifest records for id
ArchiveRecorded(id) ==
  AppendExtension(id, GetFileNameExtension(ManifestOf(repo)[id]["Type"]))

\* C25: at the end of a successful run that writes the repository, for
\* every package of the table that is neither ignored nor a pure container,
\* the repository directory still holds, after CleanUp, the archive of the
\* package with the extension of the Type the manifest records, and CabSize
\* and CabMD5 of the written manifest are the size and the digest of that
\* archive file
C25_ManifestMatchesArchives ==
  Succeeded /\ mode \in {"update", "create"} =>
    \A id \in DOMAIN packageTable :
      ~IsToBeIgnored(packageTable[id]) /\ ~IsPureContainerPackage(packageTable[id]) =>
        /\ id \in DOMAIN ManifestOf(repo)
        /\ {"Type", "CabSize", "CabMD5"} \subseteq DOMAIN ManifestOf(repo)[id]
        /\ ManifestOf(repo)[id]["Type"] \in {"MSCab", "TarBzip2", "TarLzma"}
        /\ ArchiveRecorded(id) \in DOMAIN repo
        /\ ManifestOf(repo)[id]["CabSize"]
             = to_string(FileSize(repo[ArchiveRecorded(id)]))
        /\ ManifestOf(repo)[id]["CabMD5"]
             = MD5ToString(MD5Of(ArchiveBytes(repo[ArchiveRecorded(id)].data)))

\* The value of key the manifest has for id, "" for none
ValueOf(manifest, id, key) ==
  IF TryGetValueAsString(manifest, id, key) THEN GetValue(manifest, id, key) ELSE ""

\* The package --create-package reads from the staging directory
StagedId == InitializePackageInfo(stagingDir).id

\* C26: in --create-package mode only the package read from the staging
\* directory can have its archive built or replaced: for every other package
\* loaded from the package manifests of the repository no archiver is run,
\* the contents of its archive file stay as they are, and its MD5 and
\* TimePackaged in the manifest stay as they are, whatever the state of the
\* repository
C26_SinglePackageRefresh ==
  [][mode = "create" /\ pc = "reconcile" /\ todo # <<>> /\ Head(todo) # StagedId =>
       /\ \A c \in NewCommands : c[1] \notin {"tar", "compress"}
       /\ \A n \in ArchiveNamesOf(Head(todo)) :
            /\ n \in DOMAIN repo <=> n \in DOMAIN repo'
            /\ n \in DOMAIN repo => repo'[n].data = repo[n].data
       /\ \A key \in {"MD5", "TimePackaged"} :
            ValueOf(repositoryManifest', Head(todo), key)
              = ValueOf(repositoryManifest, Head(todo), key)]_vars

====
